---- MODULE Spec2Model ----
(***************************************************************************)
(* devlogs: the document store as the handlers, the tail/search queries    *)
(* and the rollup engine use it.                                           *)
(*                                                                         *)
(* Encoding of Python values:                                              *)
(*   - a dict is a record; doc.get(f) is Get(d, f), None when f is absent  *)
(*   - None is the string "None" in string fields and NoTime in timestamps *)
(*   - an ISO-8601 "...Z" timestamp string is the natural number of its    *)
(*     instant (the handlers write no other format), NoTime when missing   *)
(*   - a sort value / cursor [timestamp, _id] is the tuple <<ts, id>>, a   *)
(*     missing cursor (None) the empty tuple                               *)
(*   - doc_type is the record [name, parent] the handler writes; the plain  *)
(*     string "operation" of a rolled-up parent is [name |-> "operation",  *)
(*     parent |-> None]                                                    *)
(*   - a text (message, rollup blob) is the sequence of its tokens         *)
(*   - the fields pathname, lineno, funcName, thread, process, exception   *)
(*     and features are copied through unchanged by every operation and    *)
(*     are left out of the records                                         *)
(***************************************************************************)
EXTENDS Integers, Sequences, FiniteSets, TLC

\* ---------------------------------------------------------------- bounds
\* documents the handlers write in one behaviour
MaxDocs == 3
\* distinct clock readings a record's `created` can take
MaxTs == 3
\* rollup passes in one behaviour
MaxPasses == 2
\* page size of the rollup scan (500 in rollup.py, scaled to the store)
PageSize == 2
\* emit() calls in one behaviour
MaxEmits == 3
\* the latest reading of the clock
MaxClock == 170
\* largest page size (`limit`) a tail session is started with
MaxLimit == 2
\* tail_logs calls of one tail session
MaxPolls == 4

\* ------------------------------------------------------- values and order
None == "None"
NoTime == 0
NoLimit == -1
\* search_logs' default limit
DefaultSearchLimit == 50

Timestamps == 1..MaxTs

\* auto-generated document ids ("d1", "d2", ...): the store draws them at
\* random, so a write may get any unused one
DocIds == {"d" \o ToString(n) : n \in 1..MaxDocs}

\* operation ids used by the operation scopes of the application, in string
\* order
OpOrder == <<"inner", "other", "outer">>
OperationIds == {OpOrder[i] : i \in 1..Len(OpOrder)}

\* _id is a keyword: ids sort as strings. IdRank is the position of an id in
\* that order (digits sort before letters: every "d.." is below "inner").
IdRankOf ==
    [id \in DocIds \cup OperationIds |->
        IF id \in DocIds
        THEN CHOOSE n \in 1..MaxDocs : id = "d" \o ToString(n)
        ELSE MaxDocs + (CHOOSE i \in 1..Len(OpOrder) : OpOrder[i] = id)]

IdRank(id) == IdRankOf[id]

RECURSIVE SortIds(_)
SortIds(S) ==
    IF S = {} THEN <<>>
    ELSE LET m == CHOOSE x \in S : \A y \in S : IdRank(x) <= IdRank(y)
         IN  <<m>> \o SortIds(S \ {m})

Get(d, f) == IF f \in DOMAIN d THEN d[f] ELSE None
GetTime(d) == IF "timestamp" \in DOMAIN d THEN d.timestamp ELSE NoTime

\* the sort value of a hit under sort [timestamp, _id]
SortOf(d) == <<GetTime(d), d.id>>

\* strict order of two sort values
KeyLess(a, b) ==
    \/ a[1] < b[1]
    \/ a[1] = b[1] /\ IdRank(a[2]) < IdRank(b[2])

Reverse(s) == [i \in 1..Len(s) |-> s[Len(s) + 1 - i]]

Take(s, n) == IF Len(s) <= n THEN s ELSE SubSeq(s, 1, n)

RECURSIVE SortAsc(_)
SortAsc(S) ==
    IF S = {} THEN <<>>
    ELSE LET m == CHOOSE x \in S : \A y \in S \ {x} : KeyLess(SortOf(x), SortOf(y))
         IN  <<m>> \o SortAsc(S \ {m})

RECURSIVE Flatten(_)
Flatten(ss) == IF ss = <<>> THEN <<>> ELSE Head(ss) \o Flatten(Tail(ss))

VARIABLES
    store,          \* the documents of the index (FakeOpenSearch._docs)
    issued,         \* the auto-generated ids handed out so far
    tailLimit,      \* tail: --limit of the session
    tailOperation,  \* tail: --operation of the session (None: no filter)
    search_after,   \* tail: the cursor the loop carries from poll to poll
    pages,          \* tail: the page each tail_logs call returned, in order
    cursors,        \* tail: the cursor each tail_logs call returned, in order
    sessionWrites,  \* history: ids written after the session's first call
    fresh,          \* history: ids written after the first call above
                    \*          everything delivered before the write
    rPc,            \* rollup: where the pass is ("idle": none running)
    rMode,          \* rollup: "single" (rollup_operation) or "batch"
    rTarget,        \* rollup: rollup_operation's operation_id
    rSince,         \* rollup: rollup_operations' since (NoTime: None)
    rAfter,         \* rollup: search_after of the scan
    rDocs,          \* rollup: the documents scanned so far
    rTodo,          \* rollup: roots still to roll up, the current one first
    rTotals,        \* rollup: <<children folded, parents written>> so far
    rBefore,        \* history: the store when the pass began
    rDuring,        \* history: ids written while the pass ran
    passes,         \* history: the completed passes
    _circuit_open,        \* OpenSearchHandler._circuit_open (class attribute)
    _circuit_open_until,  \* OpenSearchHandler._circuit_open_until
    _last_error_printed,  \* OpenSearchHandler._last_error_printed
    now,            \* time.time()
    ePc,            \* emit: where each thread's emit() is ("idle": not in one)
    eTime,          \* emit: each thread's current_time
    emits,          \* history: emit() calls made so far
    calls,          \* history: client.index calls made so far
    notices,        \* history: what was printed, <<text, current_time>>
    stale,          \* history: the threads whose write had succeeded, their
                    \*          emit() not yet over, when the latest failure
                    \*          opened the breaker
    _operation_id_var,         \* context: the ContextVar, per task
    _parent_operation_id_var,  \* context: the ContextVar, per task
    _area_var,                 \* context: the ContextVar, per task
    _rollup_default,           \* context: the module global
    frames,         \* context: each task's active operation() scopes, the
                    \*          innermost last, with their local variables
    uuids,          \* context: the uuid4 ids generated so far
    escaped,        \* context: whether an exception left a scope of the task
    lastStep,       \* history: each task's latest step
    rollups,        \* history: the rollup each task's latest exit ran
    indexed,        \* ingest: the index calls the handlers' client received
                    \*         (DummyClient.indexed), with the record and the
                    \*         context of each
    lastSearch,     \* query: the latest search with a level filter, if any:
                    \*        the level asked for, the ids of the hits and
                    \*        the store it ran on
    wMap,           \* _resolve_root: parent_map
    wStart,         \* _resolve_root: operation_id
    wPc,            \* _resolve_root: "call", "loop" or "done" (returned)
    wCurrent,       \* _resolve_root: current
    wSeen,          \* _resolve_root: seen
    wResult,        \* _resolve_root: the value returned
    command,        \* cli: "tail" or "search"
    follow,         \* cli: --follow
    consecutive_errors,  \* cli: the loop's local of that name
    cliPc,          \* cli: "idle" (not started), "loop" or "exited"
    exitStatus,     \* cli: the exit status once the command is over
    outcomes        \* history: each poll's outcome, with the cursor before
                    \*          and after it

tailVars == <<tailLimit, tailOperation, search_after, pages, cursors,
              sessionWrites, fresh>>
rollupVars == <<rPc, rMode, rTarget, rSince, rAfter, rDocs, rTodo, rTotals, rBefore,
                rDuring, passes>>
breakerVars == <<_circuit_open, _circuit_open_until, _last_error_printed, now,
                 ePc, eTime, emits, calls, notices, stale>>
contextVars == <<_operation_id_var, _parent_operation_id_var, _area_var,
                 _rollup_default, frames, uuids, escaped, lastStep, rollups>>
ingestVars == <<indexed>>
queryVars == <<lastSearch>>
walkVars == <<wMap, wStart, wPc, wCurrent, wSeen, wResult>>
cliVars == <<command, follow, consecutive_errors, cliPc, exitStatus, outcomes>>
vars == <<store, issued, tailVars, rollupVars, breakerVars, contextVars,
          ingestVars, queryVars, walkVars, cliVars>>

\* ---------------------------------------------------------------- store
\* client.index(index, body, id=None): a new document under a fresh id, or
\* the document with that id replaced
StoreIndex(s, id, body) ==
    {d \in s : d.id # id} \cup {[f \in DOMAIN body \cup {"id"} |->
                                    IF f = "id" THEN id ELSE body[f]]}

\* term filter on doc_type: a doc_type written as {"name": .., "parent": ..}
\* matches on its name
DocTypeName(d) == IF "doc_type" \in DOMAIN d THEN d.doc_type.name ELSE None

\* A query body is the record of its filters: the doc_type names it accepts
\* (no_type: also a document without doc_type), area / operation_ids / since
\* when set. Matches is the store applying it to one document.
Matches(q, d) ==
    /\ \/ DocTypeName(d) \in q.types
       \/ q.no_type /\ "doc_type" \notin DOMAIN d
    /\ q.area # None => Get(d, "area") = q.area
    /\ q.operation_ids # {} => Get(d, "operation_id") \in q.operation_ids
    /\ q.since # NoTime => GetTime(d) >= q.since
    /\ ("levels" \in DOMAIN q /\ q.levels # {}) => Get(d, "level") \in q.levels

\* a cursor that holds the timestamp alone
SearchAfter_TimestampOnly(key, after, desc) ==
    IF desc THEN key[1] < after[1] ELSE after[1] < key[1]

\* search_after: the hit's sort value lies strictly beyond the cursor, in the
\* direction of the sort
SearchAfter(key, after, desc) ==
    IF desc THEN KeyLess(key, after) ELSE KeyLess(after, key)

\* client.search(body): filter, sort by (timestamp, _id) in the direction of
\* the first sort clause, drop what is not beyond search_after, cut to size
StoreSearch(s, q, desc, after, size) ==
    LET asc    == SortAsc({d \in s : Matches(q, d)})
        sorted == IF desc THEN Reverse(asc) ELSE asc
        beyond(d) == IF after = <<>> THEN TRUE
                     ELSE SearchAfter(SortOf(d), after, desc)
    IN  Take(SelectSeq(sorted, beyond), size)

\* ---------------------------------------------------------------- levels
\* levels.normalize_level: case-insensitive level names to the canonical
\* lower-case set, anything else to None
normalize_level(level) ==
    CASE level \in {"debug", "DEBUG", "Debug"}          -> "debug"
      [] level \in {"info", "INFO", "Info"}             -> "info"
      [] level \in {"warning", "WARNING", "Warning"}    -> "warning"
      [] level \in {"error", "ERROR", "Error"}          -> "error"
      [] level \in {"critical", "CRITICAL", "Critical"} -> "critical"
      [] OTHER                                          -> None

\* -------------------------------------------------------------- queries
\* queries._build_log_query (free-text query and level left unset)
_build_log_query(area, operation_id, since) ==
    [ types         |-> {"log_entry"},
      no_type       |-> TRUE,
      area          |-> area,
      operation_ids |-> IF operation_id # None THEN {operation_id} ELSE {},
      since         |-> since ]

\* an empty page comes with no cursor
tail_logs_CursorLost(s, operation_id, limit, after) ==
    LET docs == StoreSearch(s, _build_log_query(None, operation_id, NoTime),
                            TRUE, after, limit)
    IN  IF docs # <<>>
        THEN <<Reverse(docs), SortOf(docs[Len(docs)])>>
        ELSE <<docs, <<>> >>

\* str.upper() of a canonical level
Upper(level) ==
    CASE level = "debug"    -> "DEBUG"
      [] level = "info"     -> "INFO"
      [] level = "warning"  -> "WARNING"
      [] level = "error"    -> "ERROR"
      [] level = "critical" -> "CRITICAL"

\* str.strip() of a level argument: " " is the blank string
StripLevel(level) == IF level = " " THEN "" ELSE level

\* the canonical form alone
_normalize_level_terms_Canonical(level) ==
    LET normalized == normalize_level(level)
    IN  IF normalized = None THEN {} ELSE {normalized}

\* queries._normalize_level_terms: the set of terms, {} for None
_normalize_level_terms(level) ==
    LET normalized == normalize_level(level)
        raw == StripLevel(level)
    IN  IF normalized = None THEN {}
        ELSE {normalized, Upper(normalized)}
             \cup (IF level # None /\ raw # "" THEN {raw} ELSE {})

\* queries._build_log_query with a level and nothing else
LevelQuery(level) ==
    LET q == _build_log_query(None, None, NoTime)
    IN  [f \in DOMAIN q \cup {"levels"} |->
            IF f = "levels" THEN _normalize_level_terms(level) ELSE q[f]]

\* queries.tail_logs: <<docs, next_search_after>>
tail_logs(s, operation_id, limit, after) ==
    LET docs == StoreSearch(s, _build_log_query(None, operation_id, NoTime),
                            TRUE, after, limit)
    IN  IF docs # <<>>
        THEN <<Reverse(docs), SortOf(docs[Len(docs)])>>
        ELSE <<docs, after>>

\* queries.search_logs
search_logs(s, area, operation_id, since, limit) ==
    StoreSearch(s, _build_log_query(area, operation_id, since), TRUE, <<>>, limit)

\* queries._normalize_entry
_normalize_entry(doc) ==
    [ timestamp    |-> GetTime(doc),
      level        |-> normalize_level(Get(doc, "level")),
      message      |-> IF "message" \in DOMAIN doc THEN doc.message ELSE <<>>,
      logger_name  |-> Get(doc, "logger_name"),
      area         |-> Get(doc, "area"),
      operation_id |-> Get(doc, "operation_id") ]

\* queries.normalize_log_entries(docs, limit); limit NoLimit is limit=None
normalize_log_entries(docs, limit) ==
    LET entries == [i \in 1..Len(docs) |-> _normalize_entry(docs[i])]
    IN  IF limit = NoLimit THEN entries ELSE Take(entries, limit)

\* ------------------------------------------------------------- handlers
\* handler.format_record + DiagnosticsHandler.emit inside an operation scope
ChildBody(ts, level, message, area, operation_id, parent_operation_id) ==
    [ timestamp           |-> ts,
      level               |-> level,
      logger_name         |-> "svc",
      message             |-> message,
      area                |-> area,
      operation_id        |-> operation_id,
      parent_operation_id |-> parent_operation_id,
      doc_type            |-> [name |-> "log_entry", parent |-> operation_id] ]

\* --------------------------------------------------------------- rollup
\* A text is the sequence of its tokens; a message is a text.
SP == " "
NL == "\n"

RECURSIVE Strip(_)
Strip(t) ==
    IF t = <<>> THEN t
    ELSE IF Head(t) \in {SP, ""} THEN Strip(Tail(t))
    ELSE IF t[Len(t)] \in {SP, ""} THEN Strip(SubSeq(t, 1, Len(t) - 1))
    ELSE t

\* rollup._normalize_operation_id: strip, blank to None
_normalize_operation_id(value) ==
    CASE value = None          -> None
      [] value \in {"", " "}   -> None
      [] value = " outer"      -> "outer"
      [] OTHER                 -> value

\* rollup._parse_timestamp: the instant of an ISO string, None when missing
_parse_timestamp(value) == IF value = NoTime THEN NoTime ELSE value

\* rollup._to_iso: the "...Z" string of an instant
_to_iso(dt) == IF dt = NoTime THEN NoTime ELSE dt

DocOp(doc) == _normalize_operation_id(Get(doc, "operation_id"))
DocParent(doc) == _normalize_operation_id(Get(doc, "parent_operation_id"))

\* the least index of a non-empty set of indices
FirstOf(I) == CHOOSE i \in I : \A j \in I : i <= j

\* rollup._build_parent_map: operation id -> the first parent seen for it
_build_parent_map(docs) ==
    LET linked(o) == {i \in 1..Len(docs) :
                        DocOp(docs[i]) = o /\ DocParent(docs[i]) # None}
        keys == {DocOp(docs[i]) : i \in 1..Len(docs)} \ {None}
    IN  [o \in {k \in keys : linked(k) # {}} |-> DocParent(docs[FirstOf(linked(o))])]

RECURSIVE WalkToRoot(_, _, _)
WalkToRoot(current, seen, parent_map) ==
    IF current \in DOMAIN parent_map /\ current \notin seen
    THEN WalkToRoot(parent_map[current], seen \cup {current}, parent_map)
    ELSE current

\* rollup._resolve_root
_resolve_root(operation_id, parent_map) ==
    IF operation_id \in {None, ""} THEN None
    ELSE WalkToRoot(operation_id, {}, parent_map)

\* a document grouped under its direct parent
GroupRoot_Parent(doc, parent_map) ==
    IF DocOp(doc) = None THEN None
    ELSE IF DocOp(doc) \in DOMAIN parent_map THEN parent_map[DocOp(doc)]
    ELSE DocOp(doc)

\* the root a scanned document is grouped under (None: not grouped)
GroupRoot(doc, parent_map) ==
    IF DocOp(doc) = None THEN None ELSE _resolve_root(DocOp(doc), parent_map)

\* rollup._group_child_docs: root id -> [docs, operation_ids]
_group_child_docs(docs) ==
    LET parent_map == _build_parent_map(docs)
        roots == {GroupRoot(docs[i], parent_map) : i \in 1..Len(docs)} \ {None}
    IN  [r \in roots |->
            LET mine(d) == GroupRoot(d, parent_map) = r
                own == SelectSeq(docs, mine)
            IN  [docs |-> own,
                 operation_ids |-> {DocOp(own[i]) : i \in 1..Len(own)}]]

\* rollup._format_rollup_line
_format_rollup_line(doc) ==
    LET timestamp == IF GetTime(doc) = NoTime THEN "" ELSE ToString(GetTime(doc))
        lvl == normalize_level(Get(doc, "level"))
        level == IF lvl = None THEN "" ELSE lvl
        logger_name == IF Get(doc, "logger_name") = None THEN ""
                       ELSE Get(doc, "logger_name")
        message == IF "message" \in DOMAIN doc THEN doc.message ELSE <<>>
    IN  Strip(<<timestamp, SP, level, SP, logger_name, SP>> \o message)

RECURSIVE JoinLines(_)
JoinLines(lines) ==
    IF lines = <<>> THEN <<>>
    ELSE IF Head(lines) = <<>> THEN JoinLines(Tail(lines))
    ELSE LET rest == JoinLines(Tail(lines))
         IN  IF rest = <<>> THEN Head(lines) ELSE Head(lines) \o <<NL>> \o rest

\* only "error" counts as an error
IsErrorLevel_ErrorOnly(level) == level = "error"

\* rollup._summarize_docs: the levels that count as errors
IsErrorLevel(level) == level \in {"error", "critical"}

\* the area of the first child scanned, whoever wrote it
PreferRootArea_FirstSeen(root_area, area) == area

\* rollup._summarize_docs: the root's own area wins over the first area seen
PreferRootArea(root_area, area) == IF root_area # None THEN root_area ELSE area

\* rollup._summarize_docs, without the conditional parent_operation_id key
\* (SummaryParent below)
_summarize_docs(docs, root_operation_id) ==
    LET N == 1..Len(docs)
        level(i) == normalize_level(Get(docs[i], "level"))
        levels == {level(i) : i \in N} \ {None}
        area_at(i) == Get(docs[i], "area")
        with_area == {i \in N : area_at(i) \notin {None, ""}}
        own == {i \in N : root_operation_id \notin {None, ""}
                          /\ DocOp(docs[i]) = root_operation_id}
        own_area == own \cap with_area
        ts(i) == _parse_timestamp(GetTime(docs[i]))
        timed == {i \in N : ts(i) # NoTime}
        start_time == IF timed = {} THEN NoTime
                      ELSE ts(CHOOSE i \in timed : \A j \in timed : ts(i) <= ts(j))
        end_time == IF timed = {} THEN NoTime
                    ELSE ts(CHOOSE i \in timed : \A j \in timed : ts(i) >= ts(j))
        \* end_time moves only on a strictly later timestamp: the message
        \* kept is that of the first document carrying the latest timestamp
        latest == {i \in timed : ts(i) = end_time}
        area == IF with_area = {} THEN None ELSE area_at(FirstOf(with_area))
        root_area == IF own_area = {} THEN None ELSE area_at(FirstOf(own_area))
    IN  [ area            |-> PreferRootArea(root_area, area),
          start_time      |-> _to_iso(start_time),
          end_time        |-> _to_iso(end_time),
          counts_by_level |-> [l \in levels |->
                                 Cardinality({i \in N : level(i) = l})],
          error_count     |-> Cardinality({i \in N : IsErrorLevel(level(i))}),
          last_message    |-> IF latest = {} THEN <<>>
                              ELSE docs[FirstOf(latest)].message,
          message         |-> JoinLines([i \in N |-> _format_rollup_line(docs[i])]),
          timestamp       |-> _to_iso(IF end_time # NoTime THEN end_time
                                      ELSE start_time) ]

\* rollup._summarize_docs: the parent_operation_id it records, None when it
\* adds no such key (the first parent id among the root's own documents)
SummaryParent(docs, root_operation_id) ==
    LET own == {i \in 1..Len(docs) :
                    /\ root_operation_id \notin {None, ""}
                    /\ DocOp(docs[i]) = root_operation_id
                    /\ DocParent(docs[i]) # None}
    IN  IF own = {} THEN None ELSE DocParent(docs[FirstOf(own)])

\* rollup._compact_child_doc
_compact_child_doc(doc) ==
    [ timestamp           |-> GetTime(doc),
      level               |-> normalize_level(Get(doc, "level")),
      logger_name         |-> Get(doc, "logger_name"),
      message             |-> IF "message" \in DOMAIN doc THEN doc.message ELSE <<>>,
      area                |-> Get(doc, "area"),
      operation_id        |-> DocOp(doc),
      parent_operation_id |-> DocParent(doc) ]

\* rollup._rollup_group: the parent document it builds
ParentDoc(root_id, docs) ==
    LET summary == _summarize_docs(docs, root_id)
        parent  == SummaryParent(docs, root_id)
        fields  == {"doc_type", "operation_id", "entries"} \cup DOMAIN summary
                   \cup (IF parent # None THEN {"parent_operation_id"} ELSE {})
    IN  [f \in fields |->
            CASE f = "doc_type"            -> [name |-> "operation", parent |-> None]
              [] f = "operation_id"        -> root_id
              [] f = "entries"             -> [i \in 1..Len(docs) |->
                                                 _compact_child_doc(docs[i])]
              [] f = "parent_operation_id" -> parent
              [] OTHER                     -> summary[f]]

\* a delete-by-query that matches no child
DeleteQuery_NoMatch(operation_ids) ==
    [ types         |-> {},
      no_type       |-> FALSE,
      area          |-> None,
      operation_ids |-> operation_ids,
      since         |-> NoTime ]

\* a delete-by-query without the operation_id filter
DeleteQuery_AllChildren(operation_ids) ==
    [ types         |-> {"log_entry"},
      no_type       |-> FALSE,
      area          |-> None,
      operation_ids |-> {},
      since         |-> NoTime ]

\* rollup._rollup_group: the delete-by-query body
DeleteQuery(operation_ids) ==
    [ types         |-> {"log_entry"},
      no_type       |-> FALSE,
      area          |-> None,
      operation_ids |-> operation_ids,
      since         |-> NoTime ]

\* client.delete_by_query(body)
StoreDeleteByQuery(s, q) == {d \in s : ~Matches(q, d)}

\* rollup._iter_child_docs: the scan's query body
ScanQuery(since) ==
    [ types         |-> {"log_entry"},
      no_type       |-> FALSE,
      area          |-> None,
      operation_ids |-> {},
      since         |-> since ]

\* the `_source` of a hit
SourceOf(hit) == [f \in DOMAIN hit \ {"id"} |-> hit[f]]

\* every pass rolls up every group it scanned
RollupRoots_AllGroups(mode, operation_id, docs) ==
    IF docs = <<>> THEN <<>> ELSE SortIds(DOMAIN _group_child_docs(docs))

\* the roots a pass goes on to roll up once its scan is complete, in order:
\* rollup_operation takes the group of the target's resolved root, if there
\* is one; rollup_operations every group, by sorted root id
RollupRoots(mode, operation_id, docs) ==
    LET groups == _group_child_docs(docs)
    IN  IF docs = <<>> THEN <<>>
        ELSE IF mode = "single"
        THEN LET op == _normalize_operation_id(operation_id)
                 resolved == _resolve_root(op, _build_parent_map(docs))
                 root_id == IF resolved \in {None, ""} THEN op ELSE resolved
             IN  IF op = None \/ root_id \notin DOMAIN groups THEN <<>>
                 ELSE <<root_id>>
        ELSE SortIds(DOMAIN groups)

Delivered == Flatten(pages)
DeliveredIds == {Delivered[i].id : i \in 1..Len(Delivered)}

\* a handler writes a child document while the tail session runs
TailWrite ==
    /\ \E id \in DocIds \ issued, ts \in Timestamps, op \in {"inner", "outer"} :
         LET body == ChildBody(ts, "info", <<id>>, "web", op, None)
             key  == <<ts, id>>
         IN  /\ store' = StoreIndex(store, id, body)
             /\ issued' = issued \cup {id}
             /\ sessionWrites' = IF pages # <<>> THEN sessionWrites \cup {id}
                                 ELSE sessionWrites
             /\ fresh' = IF /\ pages # <<>>
                            /\ tailOperation \in {None, op}
                            /\ \A i \in 1..Len(Delivered) :
                                   KeyLess(SortOf(Delivered[i]), key)
                         THEN fresh \cup {id} ELSE fresh
    /\ UNCHANGED <<tailLimit, tailOperation, search_after, pages, cursors>>
    /\ UNCHANGED rollupVars
    /\ UNCHANGED breakerVars
    /\ UNCHANGED contextVars
    /\ UNCHANGED ingestVars
    /\ UNCHANGED walkVars
    /\ UNCHANGED cliVars
    /\ UNCHANGED queryVars

\* cli.tail: one pass of the polling loop
TailPoll ==
    /\ Len(pages) < MaxPolls
    /\ LET r == tail_logs(store, tailOperation, tailLimit, search_after)
       IN  /\ pages' = Append(pages, r[1])
           /\ cursors' = Append(cursors, r[2])
           /\ search_after' = r[2]
    /\ UNCHANGED <<store, issued, tailLimit, tailOperation, sessionWrites, fresh>>
    /\ UNCHANGED rollupVars
    /\ UNCHANGED breakerVars
    /\ UNCHANGED contextVars
    /\ UNCHANGED ingestVars
    /\ UNCHANGED walkVars
    /\ UNCHANGED cliVars
    /\ UNCHANGED queryVars

\* no tail session
TailIdle ==
    /\ search_after = <<>>
    /\ pages = <<>>
    /\ cursors = <<>>
    /\ sessionWrites = {}
    /\ fresh = {}

\* no rollup pass
RollupIdle ==
    /\ rPc = "idle"
    /\ rMode = "single"
    /\ rTarget = None
    /\ rSince = NoTime
    /\ rAfter = <<>>
    /\ rDocs = <<>>
    /\ rTodo = <<>>
    /\ rTotals = <<0, 0>>
    /\ rBefore = {}
    /\ rDuring = {}
    /\ passes = <<>>

\* the threads that log, and the class attributes as the class body sets them
Threads == {"t1", "t2"}

\* the clock when the process starts logging
StartTime == 100

\* how far the clock moves between two readings that differ
Deltas == {10, 50}

\* the tasks (threads) that open operation scopes; each starts with an empty
\* context
Tasks == {"k1", "k2"}

\* no scope open, the context variables at their defaults
ContextIdle ==
    /\ _operation_id_var = [k \in Tasks |-> None]
    /\ _parent_operation_id_var = [k \in Tasks |-> None]
    /\ _area_var = [k \in Tasks |-> None]
    /\ _rollup_default = TRUE
    /\ frames = [k \in Tasks |-> <<>>]
    /\ uuids = 0
    /\ escaped = [k \in Tasks |-> FALSE]
    /\ lastStep = [k \in Tasks |-> "none"]
    /\ rollups = [k \in Tasks |-> <<>>]

\* no emit() running, the breaker as the class body leaves it
\* a client that has received nothing
IngestIdle == indexed = <<>>

\* no search made
QueryIdle == lastSearch = <<>>

\* no CLI command running
CliIdle ==
    /\ command = "tail"
    /\ follow = FALSE
    /\ consecutive_errors = 0
    /\ cliPc = "idle"
    /\ exitStatus = None
    /\ outcomes = <<>>

\* no _resolve_root call: the walk of an empty map from None has returned
WalkIdle ==
    /\ wMap = <<>>
    /\ wStart = None
    /\ wPc = "done"
    /\ wCurrent = None
    /\ wSeen = {}
    /\ wResult = None

BreakerIdle ==
    /\ _circuit_open = FALSE
    /\ _circuit_open_until = 0
    /\ _last_error_printed = 0
    /\ now = StartTime
    /\ ePc = [t \in Threads |-> "idle"]
    /\ eTime = [t \in Threads |-> 0]
    /\ emits = 0
    /\ calls = 0
    /\ notices = <<>>
    /\ stale = {}

TailInit ==
    /\ store = {}
    /\ issued = {}
    /\ tailLimit \in 1..MaxLimit
    /\ tailOperation \in {None, "outer"}
    /\ TailIdle
    /\ RollupIdle
    /\ BreakerIdle
    /\ ContextIdle
    /\ IngestIdle
    /\ QueryIdle
    /\ CliIdle
    /\ WalkIdle

TailNext == TailWrite \/ TailPoll

SpecTail == TailInit /\ [][TailNext]_vars

\* ------------------------------------------------------ cli: the loops
\* cli.tail / cli.search: max_errors
max_errors == 3

\* what a poll can raise: a lost connection, or an error of the store
PollErrors == {"ConnectionFailedError", "HTTPError"}

\* `except (ConnectionFailedError, urllib.error.URLError)`
IsConnectionError(exc) == exc = "ConnectionFailedError"

\* the count of failures survives a successful poll
AfterSuccess_Kept(errors) == errors

\* `consecutive_errors = 0` at the end of the try block
AfterSuccess(errors) == 0

\* the call of the try block: search without --follow calls search_logs and
\* leaves the cursor alone, everything else calls tail_logs
PollCall ==
    IF command = "search" /\ ~follow
    THEN <<search_logs(store, None, tailOperation, NoTime, tailLimit), search_after>>
    ELSE tail_logs(store, tailOperation, tailLimit, search_after)

\* one turn of `while True`: the poll succeeds or raises, and the loop goes
\* on, ends (no --follow) or exits with status 1
CliPoll ==
    /\ cliPc = "loop"
    /\ Len(outcomes) < MaxPolls
    /\ \E outcome \in {"ok"} \cup PollErrors :
         /\ IF outcome = "ok"
            THEN /\ pages' = Append(pages, PollCall[1])
                 /\ cursors' = Append(cursors, PollCall[2])
                 /\ search_after' = PollCall[2]
                 /\ consecutive_errors' = AfterSuccess(consecutive_errors)
                 /\ cliPc' = IF follow THEN "loop" ELSE "exited"
                 /\ exitStatus' = IF follow THEN None ELSE 0
            ELSE IF IsConnectionError(outcome)
            THEN /\ consecutive_errors' = consecutive_errors + 1
                 /\ IF ~follow \/ consecutive_errors + 1 >= max_errors
                    THEN cliPc' = "exited" /\ exitStatus' = 1
                    ELSE UNCHANGED <<cliPc, exitStatus>>
                 /\ UNCHANGED <<pages, cursors, search_after>>
            ELSE /\ cliPc' = "exited"
                 /\ exitStatus' = 1
                 /\ UNCHANGED <<consecutive_errors, pages, cursors, search_after>>
         /\ outcomes' = Append(outcomes, [ kind   |-> outcome,
                                           before |-> search_after,
                                           after  |-> search_after' ])
    /\ UNCHANGED <<store, issued, tailLimit, tailOperation, sessionWrites, fresh,
                   command, follow>>
    /\ UNCHANGED rollupVars
    /\ UNCHANGED breakerVars
    /\ UNCHANGED contextVars
    /\ UNCHANGED ingestVars
    /\ UNCHANGED queryVars
    /\ UNCHANGED walkVars

\* a document is written before the command starts polling
CliWrite == outcomes = <<>> /\ TailWrite

\* `devlogs tail` or `devlogs search`, with or without --follow, one
\* document a page
CliInit ==
    /\ store = {}
    /\ issued = {}
    /\ tailLimit = 1
    /\ tailOperation = None
    /\ TailIdle
    /\ RollupIdle
    /\ BreakerIdle
    /\ ContextIdle
    /\ IngestIdle
    /\ QueryIdle
    /\ WalkIdle
    /\ command \in {"tail", "search"}
    /\ follow \in BOOLEAN
    /\ consecutive_errors = 0
    /\ cliPc = "loop"
    /\ exitStatus = None
    /\ outcomes = <<>>

CliNext == CliWrite \/ CliPoll

SpecCli == CliInit /\ [][CliNext]_vars

\* ------------------------------------------------------- rollup: the pass
\* the ambient context of an emit: the scopes the application opens
\* (operation("outer", area="api") with operation("inner", area="jobs")
\* nested in it, and operation("other", area="web") on its own)
Contexts ==
    { [operation_id |-> "outer", parent_operation_id |-> None, area |-> "api"],
      [operation_id |-> "inner", parent_operation_id |-> "outer", area |-> "jobs"],
      [operation_id |-> "other", parent_operation_id |-> None, area |-> "web"] }

\* record.levelname of an emit
LevelNames == {"INFO", "ERROR", "CRITICAL"}

\* the scopes "outer" and "inner" alone
NestedContexts == {c \in Contexts : c.operation_id # "other"}

\* DiagnosticsHandler.emit in one of the scopes `contexts` at one of the
\* levels `names`: a child document is written. Ids are handed out in the
\* order of the writes; the scan order of the documents varies with their
\* timestamps.
Write(contexts, names) ==
    /\ Cardinality(issued) < MaxDocs
    /\ \E ts \in Timestamps, c \in contexts, name \in names :
         LET id == "d" \o ToString(Cardinality(issued) + 1)
         IN  /\ issued' = issued \cup {id}
             /\ store' = StoreIndex(store, id,
                    ChildBody(ts, normalize_level(name), <<id>>, c.area,
                              c.operation_id, c.parent_operation_id))
             /\ rDuring' = IF rPc # "idle" THEN rDuring \cup {id} ELSE rDuring
    /\ UNCHANGED <<rPc, rMode, rTarget, rSince, rAfter, rDocs, rTodo, rTotals, rBefore,
                   passes>>
    /\ UNCHANGED tailVars
    /\ UNCHANGED breakerVars
    /\ UNCHANGED contextVars
    /\ UNCHANGED ingestVars
    /\ UNCHANGED walkVars
    /\ UNCHANGED cliVars
    /\ UNCHANGED queryVars

\* a handler writes a child document, possibly while a pass runs
RollupWrite == Write(NestedContexts, {"INFO"})

\* a handler writes a child document while no pass runs
SeqWrite == rPc = "idle" /\ Write(NestedContexts, LevelNames)

\* the pass returns: back to idle, and the history keeps what it did
Finish(storeAfter, totals) ==
    /\ rPc' = "idle"
    /\ rAfter' = <<>>
    /\ rDocs' = <<>>
    /\ rTodo' = <<>>
    /\ rTotals' = <<0, 0>>
    /\ rBefore' = {}
    /\ rDuring' = {}
    /\ passes' = Append(passes, [ mode     |-> rMode,
                                  target   |-> rTarget,
                                  since    |-> rSince,
                                  before   |-> rBefore,
                                  after    |-> storeAfter,
                                  during   |-> rDuring,
                                  returned |-> totals ])

\* rollup_operation(operation_id) is called
RollupStart ==
    /\ rPc = "idle"
    /\ Len(passes) < MaxPasses
    /\ \E op \in {"inner", "outer"} : rTarget' = op
    /\ rMode' = "single"
    /\ rSince' = NoTime
    /\ rPc' = "scan"
    /\ rAfter' = <<>>
    /\ rDocs' = <<>>
    /\ rTodo' = <<>>
    /\ rTotals' = <<0, 0>>
    /\ rBefore' = store
    /\ rDuring' = {}
    /\ UNCHANGED <<store, issued, passes>>
    /\ UNCHANGED tailVars
    /\ UNCHANGED breakerVars
    /\ UNCHANGED contextVars
    /\ UNCHANGED ingestVars
    /\ UNCHANGED walkVars
    /\ UNCHANGED cliVars
    /\ UNCHANGED queryVars

\* rollup._collect_all_child_docs: one search of the paged scan; the empty
\* page ends it, and the pass goes on to the groups it found (or returns 0)
RollupScan ==
    /\ rPc = "scan"
    /\ LET hits == StoreSearch(store, ScanQuery(rSince), FALSE, rAfter, PageSize)
       IN  IF hits # <<>>
           THEN /\ rDocs' = rDocs \o [i \in 1..Len(hits) |-> SourceOf(hits[i])]
                /\ rAfter' = SortOf(hits[Len(hits)])
                /\ UNCHANGED <<rPc, rTodo, rTotals, rBefore, rDuring, passes>>
           ELSE LET roots == RollupRoots(rMode, rTarget, rDocs)
                IN  IF roots = <<>>
                    THEN Finish(store, <<0, 0>>)
                    ELSE /\ rTodo' = roots
                         /\ rPc' = "index"
                         /\ UNCHANGED <<rAfter, rDocs, rTotals, rBefore,
                                        rDuring, passes>>
    /\ UNCHANGED <<store, issued, rMode, rTarget, rSince>>
    /\ UNCHANGED tailVars
    /\ UNCHANGED breakerVars
    /\ UNCHANGED contextVars
    /\ UNCHANGED ingestVars
    /\ UNCHANGED walkVars
    /\ UNCHANGED cliVars
    /\ UNCHANGED queryVars

\* the group the pass is rolling up
CurrentGroup == _group_child_docs(rDocs)[Head(rTodo)]

\* rollup._rollup_group: client.index of the parent document
RollupIndex ==
    /\ rPc = "index"
    /\ store' = StoreIndex(store, Head(rTodo),
                           ParentDoc(Head(rTodo), CurrentGroup.docs))
    /\ rPc' = "delete"
    /\ UNCHANGED <<issued, rMode, rTarget, rSince, rAfter, rDocs, rTodo, rTotals, rBefore,
                   rDuring, passes>>
    /\ UNCHANGED tailVars
    /\ UNCHANGED breakerVars
    /\ UNCHANGED contextVars
    /\ UNCHANGED ingestVars
    /\ UNCHANGED walkVars
    /\ UNCHANGED cliVars
    /\ UNCHANGED queryVars

\* rollup._rollup_group: client.delete_by_query of the group's children, then
\* the next group or the return
RollupDelete ==
    /\ rPc = "delete"
    /\ LET after  == StoreDeleteByQuery(store,
                                        DeleteQuery(CurrentGroup.operation_ids))
           totals == <<rTotals[1] + Len(CurrentGroup.docs), rTotals[2] + 1>>
       IN  /\ store' = after
           /\ IF Tail(rTodo) = <<>>
              THEN Finish(after, totals)
              ELSE /\ rTodo' = Tail(rTodo)
                   /\ rTotals' = totals
                   /\ rPc' = "index"
                   /\ UNCHANGED <<rAfter, rDocs, rBefore, rDuring, passes>>
    /\ UNCHANGED <<issued, rMode, rTarget, rSince>>
    /\ UNCHANGED tailVars
    /\ UNCHANGED breakerVars
    /\ UNCHANGED contextVars
    /\ UNCHANGED ingestVars
    /\ UNCHANGED walkVars
    /\ UNCHANGED cliVars
    /\ UNCHANGED queryVars

RollupInit ==
    /\ store = {}
    /\ issued = {}
    /\ tailLimit = 1
    /\ tailOperation = None
    /\ TailIdle
    /\ RollupIdle
    /\ BreakerIdle
    /\ ContextIdle
    /\ IngestIdle
    /\ QueryIdle
    /\ CliIdle
    /\ WalkIdle

RollupNext ==
    \/ RollupWrite
    \/ RollupStart
    \/ RollupScan
    \/ RollupIndex
    \/ RollupDelete

SpecRollup == RollupInit /\ [][RollupNext]_vars

\* passes and writes that do not overlap, over documents of every level
SeqNext ==
    \/ SeqWrite
    \/ RollupStart
    \/ RollupScan
    \/ RollupIndex
    \/ RollupDelete

SpecRollupSeq == RollupInit /\ [][SeqNext]_vars

\* a handler writes a child document, in any of the three scopes, while no
\* pass runs
BatchWrite == rPc = "idle" /\ Write(Contexts, {"INFO"})

\* rollup_operations(since) is called; since None is NoTime
BatchStart ==
    /\ rPc = "idle"
    /\ Len(passes) < MaxPasses
    /\ \E since \in {NoTime} \cup Timestamps : rSince' = since
    /\ rMode' = "batch"
    /\ rTarget' = None
    /\ rPc' = "scan"
    /\ rAfter' = <<>>
    /\ rDocs' = <<>>
    /\ rTodo' = <<>>
    /\ rTotals' = <<0, 0>>
    /\ rBefore' = store
    /\ rDuring' = {}
    /\ UNCHANGED <<store, issued, passes>>
    /\ UNCHANGED tailVars
    /\ UNCHANGED breakerVars
    /\ UNCHANGED contextVars
    /\ UNCHANGED ingestVars
    /\ UNCHANGED walkVars
    /\ UNCHANGED cliVars
    /\ UNCHANGED queryVars

\* incremental passes over every operation, and writes between them
BatchNext ==
    \/ BatchWrite
    \/ BatchStart
    \/ RollupScan
    \/ RollupIndex
    \/ RollupDelete

SpecRollupBatch == RollupInit /\ [][BatchNext]_vars

\* a pass begins: rollup_operation(target) or rollup_operations(since)
StartPass(mode, target, since) ==
    /\ rPc = "idle"
    /\ Len(passes) < MaxPasses
    /\ rMode' = mode
    /\ rTarget' = target
    /\ rSince' = since
    /\ rPc' = "scan"
    /\ rAfter' = <<>>
    /\ rDocs' = <<>>
    /\ rTodo' = <<>>
    /\ rTotals' = <<0, 0>>
    /\ rBefore' = store
    /\ rDuring' = {}
    /\ UNCHANGED <<store, issued, passes>>
    /\ UNCHANGED tailVars
    /\ UNCHANGED breakerVars
    /\ UNCHANGED contextVars
    /\ UNCHANGED ingestVars
    /\ UNCHANGED walkVars
    /\ UNCHANGED cliVars
    /\ UNCHANGED queryVars

\* the scope operation("outer", area="api"), the scope operation(" "), whose
\* id is blank, and a writer that sets no operation_id on its child documents
BlankContexts ==
    { [operation_id |-> "outer", parent_operation_id |-> None, area |-> "api"],
      [operation_id |-> " ", parent_operation_id |-> None, area |-> "web"],
      [operation_id |-> None, parent_operation_id |-> None, area |-> None] }

\* a child document is written while no pass runs, its operation_id "outer",
\* blank or absent
BlankWrite == rPc = "idle" /\ Write(BlankContexts, {"INFO"})

\* rollup_operation("outer") is called
BlankStartSingle == StartPass("single", "outer", NoTime)

\* rollup_operations() is called
BlankStartBatch == StartPass("batch", None, NoTime)

\* passes of both kinds over children with and without an operation id
BlankNext ==
    \/ BlankWrite
    \/ BlankStartSingle
    \/ BlankStartBatch
    \/ RollupScan
    \/ RollupIndex
    \/ RollupDelete

SpecRollupBlank == RollupInit /\ [][BlankNext]_vars

\* the ids rollup_operation is called with: the three scopes, a blank id and
\* None
SingleTargets == OperationIds \cup {" ", None}

\* rollup_operation(operation_id) is called
SingleStart == \E op \in SingleTargets : StartPass("single", op, NoTime)

\* rollup_operation passes over the children of two trees, and writes
\* between them
SingleNext ==
    \/ BatchWrite
    \/ SingleStart
    \/ RollupScan
    \/ RollupIndex
    \/ RollupDelete

SpecRollupSingle == RollupInit /\ [][SingleNext]_vars

\* an exception leaves the pass: back to idle, and the history keeps how far
\* the pass got
Abort(storeAfter, call) ==
    /\ rPc' = "idle"
    /\ rAfter' = <<>>
    /\ rDocs' = <<>>
    /\ rTodo' = <<>>
    /\ rTotals' = <<0, 0>>
    /\ rBefore' = {}
    /\ rDuring' = {}
    /\ passes' = Append(passes, [ mode     |-> rMode,
                                  target   |-> rTarget,
                                  since    |-> rSince,
                                  before   |-> rBefore,
                                  after    |-> storeAfter,
                                  during   |-> rDuring,
                                  returned |-> rTotals,
                                  raised   |-> call,
                                  todo     |-> rTodo,
                                  scanned  |-> CurrentGroup.docs ])

\* the parent write fails and the pass goes on to the delete
RollupIndexRaise_Swallowed ==
    /\ rPc = "index"
    /\ rPc' = "delete"
    /\ UNCHANGED <<store, issued, rMode, rTarget, rSince, rAfter, rDocs, rTodo,
                   rTotals, rBefore, rDuring, passes>>
    /\ UNCHANGED tailVars
    /\ UNCHANGED breakerVars
    /\ UNCHANGED contextVars
    /\ UNCHANGED ingestVars
    /\ UNCHANGED walkVars
    /\ UNCHANGED cliVars
    /\ UNCHANGED queryVars

\* rollup._rollup_group: client.index raises; nothing catches it in
\* _rollup_group or in rollup_operation(s), so the pass ends there
RollupIndexRaise ==
    /\ rPc = "index"
    /\ Abort(store, "index")
    /\ UNCHANGED <<store, issued, rMode, rTarget, rSince>>
    /\ UNCHANGED tailVars
    /\ UNCHANGED breakerVars
    /\ UNCHANGED contextVars
    /\ UNCHANGED ingestVars
    /\ UNCHANGED walkVars
    /\ UNCHANGED cliVars
    /\ UNCHANGED queryVars

\* rollup._rollup_group: client.delete_by_query raises, having deleted some
\* of the documents it matches, and the pass ends there
RollupDeleteRaise ==
    /\ rPc = "delete"
    /\ LET q == DeleteQuery(CurrentGroup.operation_ids)
       IN  \E gone \in SUBSET {d \in store : Matches(q, d)} :
              /\ store' = store \ gone
              /\ Abort(store \ gone, "delete")
    /\ UNCHANGED <<issued, rMode, rTarget, rSince>>
    /\ UNCHANGED tailVars
    /\ UNCHANGED breakerVars
    /\ UNCHANGED contextVars
    /\ UNCHANGED ingestVars
    /\ UNCHANGED walkVars
    /\ UNCHANGED cliVars
    /\ UNCHANGED queryVars

\* rollup_operation("inner") or rollup_operations() is called
FailStart ==
    \/ StartPass("single", "inner", NoTime)
    \/ StartPass("batch", None, NoTime)

\* passes whose store calls may fail, and writes between them
FailNext ==
    \/ BatchWrite
    \/ FailStart
    \/ RollupScan
    \/ RollupIndex
    \/ RollupIndexRaise
    \/ RollupDelete
    \/ RollupDeleteRaise

SpecRollupFail == RollupInit /\ [][FailNext]_vars

\* rollup._collect_child_docs: the query body
CollectQuery(operation_id) ==
    [ types         |-> {"log_entry"},
      no_type       |-> FALSE,
      area          |-> None,
      operation_ids |-> {operation_id},
      since         |-> NoTime ]

\* _collect_child_docs(client, index_logs, "outer", batch_size) is called
CollectStart ==
    /\ rPc = "idle"
    /\ Len(passes) < MaxPasses
    /\ rMode' = "collect"
    /\ rTarget' = "outer"
    /\ rSince' = NoTime
    /\ rPc' = "collect"
    /\ rAfter' = <<>>
    /\ rDocs' = <<>>
    /\ rTodo' = <<>>
    /\ rTotals' = <<0, 0>>
    /\ rBefore' = store
    /\ rDuring' = {}
    /\ UNCHANGED <<store, issued, passes>>
    /\ UNCHANGED tailVars
    /\ UNCHANGED breakerVars
    /\ UNCHANGED contextVars
    /\ UNCHANGED ingestVars
    /\ UNCHANGED walkVars
    /\ UNCHANGED cliVars
    /\ UNCHANGED queryVars

\* rollup._collect_child_docs: one search of its paged scan; the empty page
\* ends it and the documents collected are returned
CollectScan ==
    /\ rPc = "collect"
    /\ LET hits == StoreSearch(store, CollectQuery(rTarget), FALSE, rAfter,
                               PageSize)
       IN  IF hits # <<>>
           THEN /\ rDocs' = rDocs \o [i \in 1..Len(hits) |-> SourceOf(hits[i])]
                /\ rAfter' = SortOf(hits[Len(hits)])
                /\ UNCHANGED <<rPc, rTodo, rTotals, rBefore, rDuring, passes>>
           ELSE Finish(store, <<Len(rDocs), 0>>)
    /\ UNCHANGED <<store, issued, rMode, rTarget, rSince>>
    /\ UNCHANGED tailVars
    /\ UNCHANGED breakerVars
    /\ UNCHANGED contextVars
    /\ UNCHANGED ingestVars
    /\ UNCHANGED walkVars
    /\ UNCHANGED cliVars
    /\ UNCHANGED queryVars

\* rollup_operations(since) is called, with no since or with one
ScanStart == \E since \in {NoTime, MaxTs - 1} : StartPass("batch", None, since)

\* the scopes operation("outer", area="api") and operation(" ")
ScanContexts == {c \in BlankContexts : c.operation_id # None}

\* a child document is written before any scan
ScanWrite == rPc = "idle" /\ passes = <<>> /\ Write(ScanContexts, {"INFO"})

\* one of the two paged scans, over a store of fewer, as many or more
\* matching children than a page holds
ScanNext ==
    \/ ScanWrite
    \/ passes = <<>> /\ ScanStart
    \/ passes = <<>> /\ CollectStart
    \/ RollupScan
    \/ CollectScan
    \/ RollupIndex
    \/ RollupDelete

\* a scan that has begun goes on to its next search
SpecScan ==
    /\ RollupInit
    /\ [][ScanNext]_vars
    /\ WF_vars(RollupScan)
    /\ WF_vars(CollectScan)

\* ------------------------------------------------ handlers: the breaker
_circuit_breaker_duration == 60
_error_print_interval == 10

\* the history counters and the history of notices stop growing at MaxEmits
Bump(n) == IF n < MaxEmits THEN n + 1 ELSE n
Log(ns, n) == IF Len(ns) < MaxEmits THEN Append(ns, n) ELSE ns

\* what client.index can raise, and `except Exception` catching it
StoreErrors == {"ConnectionError", "TransportError"}

\* only connection errors are caught
Catches_ConnectionOnly(exc) == exc = "ConnectionError"

Catches(exc) == exc \in StoreErrors

\* emit() begins on thread t: current_time is read and the breaker checked;
\* an open breaker before its deadline makes it return at once
EmitBegin(t) ==
    /\ ePc[t] = "idle"
    /\ emits' = Bump(emits)
    /\ IF _circuit_open /\ now < _circuit_open_until
       THEN UNCHANGED <<ePc, eTime>>
       ELSE /\ ePc' = [ePc EXCEPT ![t] = "index"]
            /\ eTime' = [eTime EXCEPT ![t] = now]
    /\ UNCHANGED <<store, issued, _circuit_open, _circuit_open_until,
                   _last_error_printed, now, calls, notices>>
    /\ UNCHANGED stale
    /\ UNCHANGED tailVars
    /\ UNCHANGED rollupVars
    /\ UNCHANGED contextVars
    /\ UNCHANGED ingestVars
    /\ UNCHANGED walkVars
    /\ UNCHANGED cliVars
    /\ UNCHANGED queryVars

\* self.client.index(...) inside operation("outer", area="api"): the store
\* takes the document, or the call raises one of `errors`; an exception the
\* handler does not catch leaves emit() ("raised")
Index(t, errors) ==
    /\ ePc[t] = "index"
    /\ calls' = Bump(calls)
    /\ \/ LET id == "d" \o ToString(Bump(calls))
          IN  /\ store' = StoreIndex(store, id,
                             ChildBody(eTime[t], "info", <<id>>, "api",
                                       "outer", None))
              /\ issued' = issued \cup {id}
              /\ ePc' = [ePc EXCEPT ![t] = "success"]
       \/ \E exc \in errors :
              /\ ePc' = [ePc EXCEPT ![t] =
                           IF Catches(exc) THEN "except" ELSE "raised"]
              /\ UNCHANGED <<store, issued>>
    /\ UNCHANGED <<_circuit_open, _circuit_open_until, _last_error_printed, now,
                   eTime, emits, notices>>
    /\ UNCHANGED stale
    /\ UNCHANGED tailVars
    /\ UNCHANGED rollupVars
    /\ UNCHANGED contextVars
    /\ UNCHANGED ingestVars
    /\ UNCHANGED walkVars
    /\ UNCHANGED cliVars
    /\ UNCHANGED queryVars

\* a store that may fail at any time
EmitIndex(t) == Index(t, StoreErrors)

\* after a successful index: `if OpenSearchHandler._circuit_open:`
EmitSuccess(t) ==
    /\ ePc[t] = "success"
    /\ ePc' = [ePc EXCEPT ![t] = IF _circuit_open THEN "close" ELSE "idle"]
    /\ UNCHANGED <<store, issued, _circuit_open, _circuit_open_until,
                   _last_error_printed, now, eTime, emits, calls, notices>>
    /\ stale' = IF ePc'[t] = "idle" THEN stale \ {t} ELSE stale
    /\ UNCHANGED tailVars
    /\ UNCHANGED rollupVars
    /\ UNCHANGED contextVars
    /\ UNCHANGED ingestVars
    /\ UNCHANGED walkVars
    /\ UNCHANGED cliVars
    /\ UNCHANGED queryVars

\* the breaker stays as it is
EmitClose_Forgotten(t) ==
    /\ ePc[t] = "close"
    /\ ePc' = [ePc EXCEPT ![t] = "idle"]
    /\ UNCHANGED <<store, issued, _circuit_open, _circuit_open_until,
                   _last_error_printed, now, eTime, emits, calls, notices>>
    /\ stale' = IF ePc'[t] = "idle" THEN stale \ {t} ELSE stale
    /\ UNCHANGED tailVars
    /\ UNCHANGED rollupVars
    /\ UNCHANGED contextVars
    /\ UNCHANGED ingestVars
    /\ UNCHANGED walkVars
    /\ UNCHANGED cliVars
    /\ UNCHANGED queryVars

\* after a successful index: _circuit_open = False and the notice
EmitClose(t) ==
    /\ ePc[t] = "close"
    /\ _circuit_open' = FALSE
    /\ notices' = Log(notices, <<"Connection restored", eTime[t]>>)
    /\ ePc' = [ePc EXCEPT ![t] = "idle"]
    /\ UNCHANGED <<store, issued, _circuit_open_until, _last_error_printed, now,
                   eTime, emits, calls>>
    /\ stale' = IF ePc'[t] = "idle" THEN stale \ {t} ELSE stale
    /\ UNCHANGED tailVars
    /\ UNCHANGED rollupVars
    /\ UNCHANGED contextVars
    /\ UNCHANGED ingestVars
    /\ UNCHANGED walkVars
    /\ UNCHANGED cliVars
    /\ UNCHANGED queryVars

\* except Exception: _circuit_open = True
EmitExceptOpen(t) ==
    /\ ePc[t] = "except"
    /\ _circuit_open' = TRUE
    /\ ePc' = [ePc EXCEPT ![t] = "deadline"]
    /\ UNCHANGED <<store, issued, _circuit_open_until, _last_error_printed, now,
                   eTime, emits, calls, notices>>
    /\ stale' = {u \in Threads : ePc[u] \in {"success", "close"}}
    /\ UNCHANGED tailVars
    /\ UNCHANGED rollupVars
    /\ UNCHANGED contextVars
    /\ UNCHANGED ingestVars
    /\ UNCHANGED walkVars
    /\ UNCHANGED cliVars
    /\ UNCHANGED queryVars

\* the deadline is set only when none is pending
EmitExceptDeadline_NoRearm(t) ==
    /\ ePc[t] = "deadline"
    /\ _circuit_open_until' = IF _circuit_open_until = 0
                              THEN eTime[t] + _circuit_breaker_duration
                              ELSE _circuit_open_until
    /\ ePc' = [ePc EXCEPT ![t] = "throttle"]
    /\ UNCHANGED <<store, issued, _circuit_open, _last_error_printed, now,
                   eTime, emits, calls, notices>>
    /\ UNCHANGED stale
    /\ UNCHANGED tailVars
    /\ UNCHANGED rollupVars
    /\ UNCHANGED contextVars
    /\ UNCHANGED ingestVars
    /\ UNCHANGED walkVars
    /\ UNCHANGED cliVars
    /\ UNCHANGED queryVars

\* except Exception: _circuit_open_until = current_time + duration
EmitExceptDeadline(t) ==
    /\ ePc[t] = "deadline"
    /\ _circuit_open_until' = eTime[t] + _circuit_breaker_duration
    /\ ePc' = [ePc EXCEPT ![t] = "throttle"]
    /\ UNCHANGED <<store, issued, _circuit_open, _last_error_printed, now,
                   eTime, emits, calls, notices>>
    /\ UNCHANGED stale
    /\ UNCHANGED tailVars
    /\ UNCHANGED rollupVars
    /\ UNCHANGED contextVars
    /\ UNCHANGED ingestVars
    /\ UNCHANGED walkVars
    /\ UNCHANGED cliVars
    /\ UNCHANGED queryVars

\* except Exception: is the last printed error old enough?
EmitExceptThrottle(t) ==
    /\ ePc[t] = "throttle"
    /\ ePc' = [ePc EXCEPT ![t] =
                 IF eTime[t] - _last_error_printed > _error_print_interval
                 THEN "print" ELSE "idle"]
    /\ UNCHANGED <<store, issued, _circuit_open, _circuit_open_until,
                   _last_error_printed, now, eTime, emits, calls, notices>>
    /\ UNCHANGED stale
    /\ UNCHANGED tailVars
    /\ UNCHANGED rollupVars
    /\ UNCHANGED contextVars
    /\ UNCHANGED ingestVars
    /\ UNCHANGED walkVars
    /\ UNCHANGED cliVars
    /\ UNCHANGED queryVars

\* except Exception: print the error and remember when
EmitExceptPrint(t) ==
    /\ ePc[t] = "print"
    /\ notices' = Log(notices, <<"Failed to index log", eTime[t]>>)
    /\ _last_error_printed' = eTime[t]
    /\ ePc' = [ePc EXCEPT ![t] = "idle"]
    /\ UNCHANGED <<store, issued, _circuit_open, _circuit_open_until, now,
                   eTime, emits, calls>>
    /\ UNCHANGED stale
    /\ UNCHANGED tailVars
    /\ UNCHANGED rollupVars
    /\ UNCHANGED contextVars
    /\ UNCHANGED ingestVars
    /\ UNCHANGED walkVars
    /\ UNCHANGED cliVars
    /\ UNCHANGED queryVars

\* time passes: the clock moves on by one of `deltas`
Advance(deltas) ==
    /\ \E d \in deltas : /\ now + d <= MaxClock
                         /\ now' = now + d
    /\ UNCHANGED <<store, issued, _circuit_open, _circuit_open_until,
                   _last_error_printed, ePc, eTime, emits, calls, notices>>
    /\ UNCHANGED stale
    /\ UNCHANGED tailVars
    /\ UNCHANGED rollupVars
    /\ UNCHANGED contextVars
    /\ UNCHANGED ingestVars
    /\ UNCHANGED walkVars
    /\ UNCHANGED cliVars
    /\ UNCHANGED queryVars

Tick == Advance(Deltas)

BreakerInit == RollupInit

BreakerNext ==
    \/ \E t \in Threads : emits < MaxEmits /\ EmitBegin(t)
    \/ \E t \in Threads : EmitIndex(t)
    \/ \E t \in Threads : EmitSuccess(t)
    \/ \E t \in Threads : EmitClose(t)
    \/ \E t \in Threads : EmitExceptOpen(t)
    \/ \E t \in Threads : EmitExceptDeadline(t)
    \/ \E t \in Threads : EmitExceptThrottle(t)
    \/ \E t \in Threads : EmitExceptPrint(t)
    \/ Tick

SpecBreaker == BreakerInit /\ [][BreakerNext]_vars

\* ------------------------------------- the breaker once the store is back
\* The store may fail while the clock reads LastFailure or less and never
\* after; emit() goes on being called on every thread and the clock runs on
\* to MaxClock, by when every cool-down has elapsed.
LastFailure == MaxClock - _circuit_breaker_duration

LiveIndex(t) == Index(t, IF now <= LastFailure THEN StoreErrors ELSE {})

\* the clock is read half a cool-down apart
LiveDeltas == {_circuit_breaker_duration \div 2}

LiveTick == Advance(LiveDeltas)

\* the steps of thread t
EmitStep(t) ==
    \/ EmitBegin(t)
    \/ LiveIndex(t)
    \/ EmitSuccess(t)
    \/ EmitClose(t)
    \/ EmitExceptOpen(t)
    \/ EmitExceptDeadline(t)
    \/ EmitExceptThrottle(t)
    \/ EmitExceptPrint(t)

LiveNext ==
    \/ \E t \in Threads : EmitStep(t)
    \/ LiveTick

\* every thread keeps running and the clock keeps running
SpecBreakerLive ==
    /\ BreakerInit
    /\ [][LiveNext]_vars
    /\ WF_vars(LiveTick)
    /\ \A t \in Threads : WF_vars(EmitStep(t))

\* ------------------------------------------------------------- context
\* bounds: scopes open at once in one task and in all, generated ids
MaxDepth == 2
MaxOpen == 2
MaxUuids == 1

\* ContextVar.get / ContextVar.set in task k: every task has its own context
CvGet(var, k) == var[k]

\* one variable shared by all tasks
CvSet_Global(var, k, value) == [j \in DOMAIN var |-> value]

CvSet(var, k, value) == [var EXCEPT ![k] = value]

\* the Token of a ContextVar.set (the value before it), or no token (None)
NoToken == [set |-> FALSE, old |-> None]
TokenOf(old) == [set |-> TRUE, old |-> old]

\* the variable is cleared
CvReset_Clear(var, k, token) ==
    IF token.set THEN CvSet(var, k, None) ELSE var

\* `if token: var.reset(token)`
CvReset(var, k, token) ==
    IF token.set THEN CvSet(var, k, token.old) ELSE var

\* the (operation_id, parent_operation_id, area) of task k
Ctx(k) == << CvGet(_operation_id_var, k),
             CvGet(_parent_operation_id_var, k),
             CvGet(_area_var, k) >>

\* the arguments the application passes to operation(): an id (None: a uuid
\* is generated; "": the empty string), an area or None, rollup or None
ScopeIds == {"outer", "", None}
Areas == {"api", "jobs"}
RollupArgs == {None, "True", "False"}

\* str(uuid.uuid4())
NewUuid == "uuid" \o ToString(uuids + 1)

\* every nested scope rolls up too
ShouldRollup_Always(rollup_enabled, prev_operation_id) == rollup_enabled

\* should_rollup = rollup_enabled and prev_operation_id is None
ShouldRollup(rollup_enabled, prev_operation_id) ==
    rollup_enabled /\ prev_operation_id = None

\* what _rollup_operation can meet: load_config, the client or the pass raise
RollupErrors == {"ConnectionError", "ConfigError"}

\* only connection errors are caught
RollupCatches_ConnectionOnly(exc) == exc = "ConnectionError"

\* _rollup_operation: `except Exception`
RollupCatches(exc) == exc \in RollupErrors

\* rollup.rollup_operation as one pass over store s: the store it leaves
rollup_operation(s, operation_id) ==
    LET hits  == SortAsc({d \in s : Matches(ScanQuery(NoTime), d)})
        docs  == [i \in 1..Len(hits) |-> SourceOf(hits[i])]
        roots == RollupRoots("single", operation_id, docs)
    IN  IF roots = <<>> THEN s
        ELSE LET group == _group_child_docs(docs)[roots[1]]
             IN  StoreDeleteByQuery(
                     StoreIndex(s, roots[1], ParentDoc(roots[1], group.docs)),
                     DeleteQuery(group.operation_ids))

RECURSIVE OpenIn(_)
OpenIn(ks) ==
    IF ks = {} THEN 0
    ELSE LET k == CHOOSE j \in ks : TRUE
         IN  Len(frames[k]) + OpenIn(ks \ {k})

\* `with operation(operation_id, area, rollup):` is entered in task k
OperationEnter(k) ==
    /\ Len(frames[k]) < MaxDepth
    /\ OpenIn(Tasks) < MaxOpen
    /\ ~escaped[k]
    /\ \E arg \in ScopeIds, area \in Areas \cup {None}, rollup \in RollupArgs :
         LET prev_operation_id == CvGet(_operation_id_var, k)
             operation_id == IF arg = None THEN NewUuid ELSE arg
             rollup_enabled == IF rollup = None THEN _rollup_default
                               ELSE rollup = "True"
             should_rollup == ShouldRollup(rollup_enabled, prev_operation_id)
         IN  /\ arg = None => uuids < MaxUuids
             /\ uuids' = IF arg = None THEN uuids + 1 ELSE uuids
             /\ _operation_id_var' = CvSet(_operation_id_var, k, operation_id)
             /\ _parent_operation_id_var' =
                    IF prev_operation_id # None
                    THEN CvSet(_parent_operation_id_var, k, prev_operation_id)
                    ELSE _parent_operation_id_var
             /\ _area_var' = IF area # None THEN CvSet(_area_var, k, area)
                             ELSE _area_var
             /\ frames' = [frames EXCEPT ![k] = Append(@,
                    [ operation_id   |-> operation_id,
                      should_rollup  |-> should_rollup,
                      token_op       |-> TokenOf(prev_operation_id),
                      token_parent   |-> IF prev_operation_id # None
                                         THEN TokenOf(CvGet(_parent_operation_id_var, k))
                                         ELSE NoToken,
                      token_area     |-> IF area # None
                                         THEN TokenOf(CvGet(_area_var, k))
                                         ELSE NoToken,
                      \* history: the context before the scope, and whether
                      \* rollup was enabled for it
                      before         |-> Ctx(k),
                      rollup_enabled |-> rollup_enabled ])]
             /\ lastStep' = [lastStep EXCEPT ![k] = "enter"]
             /\ rollups' = [rollups EXCEPT ![k] = <<>>]
    /\ UNCHANGED <<store, issued, _rollup_default, escaped>>
    /\ UNCHANGED tailVars
    /\ UNCHANGED rollupVars
    /\ UNCHANGED breakerVars
    /\ UNCHANGED ingestVars
    /\ UNCHANGED walkVars
    /\ UNCHANGED cliVars
    /\ UNCHANGED queryVars

\* the innermost scope of task k is left: the finally block of operation()
OperationExit(k) ==
    /\ frames[k] # <<>>
    /\ ~escaped[k]
    /\ LET f == frames[k][Len(frames[k])]
           restored ==
               /\ _operation_id_var' = CvReset(_operation_id_var, k, f.token_op)
               /\ _parent_operation_id_var' =
                      CvReset(_parent_operation_id_var, k, f.token_parent)
               /\ _area_var' = CvReset(_area_var, k, f.token_area)
               /\ escaped' = escaped
           rolled(raised) ==
               rollups' = [rollups EXCEPT ![k] =
                              << [ operation_id |-> f.operation_id,
                                   raised       |-> raised ] >>]
       IN  /\ frames' = [frames EXCEPT ![k] = SubSeq(@, 1, Len(@) - 1)]
           /\ lastStep' = [lastStep EXCEPT ![k] = "exit"]
           /\ IF f.should_rollup /\ f.operation_id # ""
              THEN \/ /\ rolled(FALSE)
                      /\ store' = rollup_operation(store, f.operation_id)
                      /\ restored
                   \/ \E exc \in RollupErrors :
                         /\ rolled(TRUE)
                         /\ store' = store
                         /\ IF RollupCatches(exc)
                            THEN restored
                            ELSE /\ escaped' = [escaped EXCEPT ![k] = TRUE]
                                 /\ UNCHANGED <<_operation_id_var,
                                                _parent_operation_id_var,
                                                _area_var>>
              ELSE /\ rollups' = [rollups EXCEPT ![k] = <<>>]
                   /\ store' = store
                   /\ restored
    /\ UNCHANGED <<issued, _rollup_default, uuids>>
    /\ UNCHANGED tailVars
    /\ UNCHANGED rollupVars
    /\ UNCHANGED breakerVars
    /\ UNCHANGED ingestVars
    /\ UNCHANGED walkVars
    /\ UNCHANGED cliVars
    /\ UNCHANGED queryVars

\* set_area(area) in task k
SetArea(k) ==
    /\ ~escaped[k]
    /\ \E area \in Areas :
         /\ _area_var' = CvSet(_area_var, k, area)
         /\ lastStep' = [lastStep EXCEPT ![k] = "set_area"]
    /\ UNCHANGED <<store, issued, _operation_id_var, _parent_operation_id_var,
                   _rollup_default, frames, uuids, escaped, rollups>>
    /\ UNCHANGED tailVars
    /\ UNCHANGED rollupVars
    /\ UNCHANGED breakerVars
    /\ UNCHANGED ingestVars
    /\ UNCHANGED walkVars
    /\ UNCHANGED cliVars
    /\ UNCHANGED queryVars

\* set_rollup_default(enabled)
SetRollupDefault ==
    /\ \E enabled \in BOOLEAN : _rollup_default' = enabled
    /\ UNCHANGED <<store, issued, _operation_id_var, _parent_operation_id_var,
                   _area_var, frames, uuids, escaped, lastStep, rollups>>
    /\ UNCHANGED tailVars
    /\ UNCHANGED rollupVars
    /\ UNCHANGED breakerVars
    /\ UNCHANGED ingestVars
    /\ UNCHANGED walkVars
    /\ UNCHANGED cliVars
    /\ UNCHANGED queryVars

ContextInit == RollupInit

\* scopes nested and left, in two tasks
ScopesNext ==
    \/ \E k \in Tasks : OperationEnter(k)
    \/ \E k \in Tasks : OperationExit(k)
    \/ SetRollupDefault

SpecScopes == ContextInit /\ [][ScopesNext]_vars

\* the same with set_area calls
ContextNext ==
    \/ \E k \in Tasks : OperationEnter(k)
    \/ \E k \in Tasks : OperationExit(k)
    \/ \E k \in Tasks : SetArea(k)
    \/ SetRollupDefault

SpecContext == ContextInit /\ [][ContextNext]_vars

\* --------------------------------------------------------------- levels
\* the `level` a search or tail is called with
LevelInputs == {None, "", " ", "ERROR", "error", "Error", "info", "verbose"}

\* the level a stored document has: written by the handlers (canonical) or
\* by earlier versions (upper case, capitalised)
StoredLevels == {"error", "ERROR", "Error", "info", "INFO"}

\* a document with some level is in the store
LevelWrite ==
    /\ Cardinality(issued) < MaxDocs
    /\ \E level \in StoredLevels :
         LET id == "d" \o ToString(Cardinality(issued) + 1)
         IN  /\ issued' = issued \cup {id}
             /\ store' = StoreIndex(store, id,
                    ChildBody(1, level, <<id>>, "api", "outer", None))
    /\ UNCHANGED tailVars
    /\ UNCHANGED rollupVars
    /\ UNCHANGED breakerVars
    /\ UNCHANGED contextVars
    /\ UNCHANGED ingestVars
    /\ UNCHANGED walkVars
    /\ UNCHANGED cliVars
    /\ UNCHANGED queryVars

\* search_logs(client, index, level=level); tail_logs builds the same query
LevelSearch ==
    /\ \E level \in LevelInputs :
         LET hits == StoreSearch(store, LevelQuery(level), TRUE, <<>>,
                                 DefaultSearchLimit)
         IN  lastSearch' = << [ level |-> level,
                                hits  |-> {hits[i].id : i \in 1..Len(hits)},
                                over  |-> store ] >>
    /\ UNCHANGED <<store, issued>>
    /\ UNCHANGED tailVars
    /\ UNCHANGED rollupVars
    /\ UNCHANGED breakerVars
    /\ UNCHANGED contextVars
    /\ UNCHANGED ingestVars
    /\ UNCHANGED walkVars
    /\ UNCHANGED cliVars

LevelsInit == RollupInit

LevelsNext == LevelWrite \/ LevelSearch

SpecLevels == LevelsInit /\ [][LevelsNext]_vars

\* --------------------------------------------------------- _resolve_root
\* the operation ids of a parent map
WalkIds == {"a", "b", "c"}

\* every parent map over WalkIds: chains, self-links and cycles
ParentMaps == UNION {[S -> WalkIds] : S \in SUBSET WalkIds}

\* the walk goes on whatever it has seen
WalkOn_Unguarded(current, seen, parent_map) == current \in DOMAIN parent_map

\* `while current in parent_map and current not in seen`
WalkOn(current, seen, parent_map) ==
    current \in DOMAIN parent_map /\ current \notin seen

\* `if not operation_id: return None`, else `current = operation_id; seen = set()`
ResolveBegin ==
    /\ wPc = "call"
    /\ IF wStart \in {None, ""}
       THEN /\ wPc' = "done"
            /\ wResult' = None
            /\ UNCHANGED <<wCurrent, wSeen>>
       ELSE /\ wPc' = "loop"
            /\ wCurrent' = wStart
            /\ wSeen' = {}
            /\ UNCHANGED wResult
    /\ UNCHANGED <<store, issued, wMap, wStart>>
    /\ UNCHANGED tailVars
    /\ UNCHANGED rollupVars
    /\ UNCHANGED breakerVars
    /\ UNCHANGED contextVars
    /\ UNCHANGED ingestVars
    /\ UNCHANGED queryVars
    /\ UNCHANGED cliVars

\* one test of the while condition: one more turn of the loop, or
\* `return current`
ResolveLoop ==
    /\ wPc = "loop"
    /\ IF WalkOn(wCurrent, wSeen, wMap)
       THEN /\ wSeen' = wSeen \cup {wCurrent}
            /\ wCurrent' = wMap[wCurrent]
            /\ UNCHANGED <<wPc, wResult>>
       ELSE /\ wPc' = "done"
            /\ wResult' = wCurrent
            /\ UNCHANGED <<wCurrent, wSeen>>
    /\ UNCHANGED <<store, issued, wMap, wStart>>
    /\ UNCHANGED tailVars
    /\ UNCHANGED rollupVars
    /\ UNCHANGED breakerVars
    /\ UNCHANGED contextVars
    /\ UNCHANGED ingestVars
    /\ UNCHANGED queryVars
    /\ UNCHANGED cliVars

\* _resolve_root(operation_id, parent_map) is called with any map and any id
ResolveInit ==
    /\ store = {}
    /\ issued = {}
    /\ tailLimit = 1
    /\ tailOperation = None
    /\ TailIdle
    /\ RollupIdle
    /\ BreakerIdle
    /\ ContextIdle
    /\ IngestIdle
    /\ QueryIdle
    /\ CliIdle
    /\ wMap \in ParentMaps
    /\ wStart \in WalkIds \cup {None, ""}
    /\ wPc = "call"
    /\ wCurrent = None
    /\ wSeen = {}
    /\ wResult = None

ResolveNext == ResolveBegin \/ ResolveLoop

\* the call runs on: a started call takes its next step
SpecResolve == ResolveInit /\ [][ResolveNext]_vars /\ WF_vars(ResolveNext)

\* -------------------------------------------------------------- ingest
\* bound: index calls the client receives in one behaviour
MaxIndexed == 1

Handlers == {"OpenSearchHandler", "DiagnosticsHandler"}

\* the handler's index_name
IndexName == "devlogs-logs-0001"

\* what `extra=` can attach to a record: an operation_id and an area, or
\* nothing (getattr(record, ..., None) is None)
ExtraOperations == {None, "op-extra"}
ExtraAreas == {None, "web"}

\* Python truth of a string or None
Truthy(v) == v # None /\ v # ""

\* `if extra: doc[field] = extra`
Override(value, extra) == IF Truthy(extra) THEN extra ELSE value

\* OpenSearchHandler.format_record in task k: the fields that come from the
\* context (the others are copied from the record)
BaseDoc(k) ==
    [ area                |-> CvGet(_area_var, k),
      operation_id        |-> CvGet(_operation_id_var, k),
      parent_operation_id |-> CvGet(_parent_operation_id_var, k) ]

\* handler.format_record(record) in task k
format_record(handler, k, record) ==
    IF handler = "DiagnosticsHandler"
    THEN [ BaseDoc(k) EXCEPT
             !.area = Override(@, record.area),
             !.operation_id = Override(@, record.operation_id) ]
    ELSE BaseDoc(k)

WithDocType(doc, doc_type) ==
    [f \in DOMAIN doc \cup {"doc_type"} |->
        IF f = "doc_type" THEN doc_type ELSE doc[f]]

ChildType(operation_id) == [name |-> "log_entry", parent |-> operation_id]
OperationType == [name |-> "operation", parent |-> None]

\* a generated id is not written into the document
GeneratedId_Dropped(doc, generated) == doc.operation_id

\* `operation_id = str(uuid.uuid4()); doc["operation_id"] = operation_id`
GeneratedId(doc, generated) ==
    IF Truthy(doc.operation_id) THEN doc.operation_id ELSE generated

\* the keyword arguments of the client.index call of handler.emit(record) in
\* task k; routing None: the call has no routing argument
IndexCall(handler, k, record) ==
    LET doc == format_record(handler, k, record)
    IN  IF handler = "DiagnosticsHandler"
        THEN LET operation_id == GeneratedId(doc, NewUuid)
                 named == [doc EXCEPT !.operation_id = operation_id]
             IN  IF Truthy(operation_id)
                    /\ (Truthy(CvGet(_operation_id_var, k))
                        \/ Truthy(record.operation_id))
                 THEN [ index   |-> IndexName,
                        body    |-> WithDocType(named, ChildType(operation_id)),
                        routing |-> operation_id ]
                 ELSE [ index   |-> IndexName,
                        body    |-> WithDocType(named, OperationType),
                        routing |-> operation_id ]
        ELSE IF Truthy(doc.operation_id)
             THEN [ index   |-> IndexName,
                    body    |-> WithDocType(doc, ChildType(doc.operation_id)),
                    routing |-> doc.operation_id ]
             ELSE [ index   |-> IndexName,
                    body    |-> WithDocType(doc, OperationType),
                    routing |-> None ]

\* handler.emit(record) in task k, with a client that accepts every write
Emit(k) ==
    /\ Len(indexed) < MaxIndexed
    /\ ~escaped[k]
    /\ \E handler \in Handlers, operation_id \in ExtraOperations,
          area \in ExtraAreas :
         LET record == [operation_id |-> operation_id, area |-> area]
             generates == /\ handler = "DiagnosticsHandler"
                          /\ ~Truthy(format_record(handler, k, record).operation_id)
         IN  IF _circuit_open /\ now < _circuit_open_until
             THEN UNCHANGED <<indexed, uuids, _circuit_open, notices>>
             ELSE /\ generates => uuids < MaxUuids
                  /\ uuids' = IF generates THEN uuids + 1 ELSE uuids
                  /\ indexed' = Append(indexed,
                         [ call    |-> IndexCall(handler, k, record),
                           \* history: who called, with what and where
                           handler |-> handler,
                           record  |-> record,
                           context |-> Ctx(k),
                           depth   |-> Len(frames[k]),
                           entered_with_area |->
                               IF frames[k] = <<>> THEN FALSE
                               ELSE frames[k][Len(frames[k])].token_area.set ])
                  /\ _circuit_open' = FALSE
                  /\ notices' = IF _circuit_open
                                THEN Log(notices, <<"Connection restored", now>>)
                                ELSE notices
    /\ UNCHANGED <<store, issued, _operation_id_var, _parent_operation_id_var,
                   _area_var, _rollup_default, frames, escaped, lastStep,
                   rollups>>
    /\ UNCHANGED <<_circuit_open_until, _last_error_printed, now, ePc, eTime,
                   emits, calls>>
    /\ UNCHANGED stale
    /\ UNCHANGED tailVars
    /\ UNCHANGED rollupVars
    /\ UNCHANGED queryVars
    /\ UNCHANGED walkVars
    /\ UNCHANGED cliVars

IngestInit == RollupInit

\* records are logged inside and outside operation scopes, until the client
\* has received MaxIndexed calls
IngestNext ==
    \/ \E k \in Tasks : Len(indexed) < MaxIndexed /\ OperationEnter(k)
    \/ \E k \in Tasks : Len(indexed) < MaxIndexed /\ OperationExit(k)
    \/ \E k \in Tasks : Emit(k)

SpecIngest == IngestInit /\ [][IngestNext]_vars

\* ------------------------------------------------------- tail: the claims
Matching ==
    {d \in store : Matches(_build_log_query(None, tailOperation, NoTime), d)}

\* what the next poll of the session would return
NextPage == tail_logs(store, tailOperation, tailLimit, search_after)[1]

NoDuplicates(s) == \A i, j \in 1..Len(s) : i # j => s[i].id # s[j].id

Ascending(s) ==
    \A i, j \in 1..Len(s) : i < j => KeyLess(SortOf(s[i]), SortOf(s[j]))

DistinctTimestamps ==
    \A a, b \in Matching : a # b => GetTime(a) # GetTime(b)

\* C1 (as claimed): in a session that keeps polling with the last cursor
\* while documents are written, every document written after the bootstrap
\* call above everything delivered so far is delivered by a later poll, and
\* nothing is delivered twice. Once a poll has nothing left to return, every
\* later poll of an unchanged store returns nothing either, so by then each
\* such document must have been delivered.
C1_NoGapsNoDuplicates ==
    /\ NoDuplicates(Delivered)
    /\ (pages # <<>> /\ NextPage = <<>>) => fresh \subseteq DeliveredIds

\* C2 (as claimed): on a store that does not change, with distinct
\* timestamps, paging with limit 2 to the end yields every matching document
\* exactly once and the pages concatenate in ascending timestamp order.
C2_PagingAscendingComplete ==
    ( /\ tailLimit = 2
      /\ sessionWrites = {}
      /\ DistinctTimestamps
      /\ pages # <<>>
      /\ NextPage = <<>> )
    => /\ DeliveredIds = {d.id : d \in Matching}
       /\ NoDuplicates(Delivered)
       /\ Ascending(Delivered)

\* C3 (as claimed): the first call (no cursor) with limit K on M > K matching
\* documents returns the K most recent in ascending order and the cursor is
\* the sort value of the most recent of them; the second call, given that
\* cursor, returns only documents strictly above it.
C3_BootstrapThenResume ==
    /\ ( /\ Len(pages) = 1
         /\ sessionWrites = {}
         /\ Cardinality(Matching) > tailLimit )
       => /\ pages[1] = SubSeq(SortAsc(Matching),
                               Cardinality(Matching) - tailLimit + 1,
                               Cardinality(Matching))
          /\ cursors[1] = SortOf(pages[1][Len(pages[1])])
    /\ ( /\ Len(pages) >= 2
         /\ cursors[1] # <<>> )
       => \A i \in 1..Len(pages[2]) : KeyLess(cursors[1], SortOf(pages[2][i]))

\* two delivered documents with one timestamp, on different pages
TieAcrossPages ==
    \E i, j \in 1..Len(pages) :
        /\ i < j
        /\ \E a \in 1..Len(pages[i]), b \in 1..Len(pages[j]) :
              GetTime(pages[i][a]) = GetTime(pages[j][b])

\* C26: on a store that does not change during the session, paging with
\* tail_logs and the cursors it returns, for every limit, delivers no
\* document twice, and once a page comes back empty every matching document
\* has been delivered, documents that share a timestamp included
C26_TiesDeliveredOnce ==
    sessionWrites = {} =>
        /\ NoDuplicates(Delivered)
        /\ (pages # <<>> /\ NextPage = <<>>) =>
               DeliveredIds = {d.id : d \in Matching}

\* three matching documents, two of them with one timestamp, were paged to
\* the end with a page boundary between the two
C26_Witness ==
    /\ sessionWrites = {}
    /\ Cardinality(Matching) = 3
    /\ ~DistinctTimestamps
    /\ TieAcrossPages
    /\ NextPage = <<>>
    /\ DeliveredIds = {d.id : d \in Matching}

\* C27: a tail_logs call that is given a cursor and finds no document
\* returns an empty page and the cursor it was given, so the session's
\* position stays where it was however often the empty poll is repeated
C27_EmptyPollKeepsCursor ==
    /\ \A i \in 2..Len(pages) :
          (pages[i] = <<>> /\ cursors[i - 1] # <<>>) => cursors[i] = cursors[i - 1]
    /\ cursors # <<>> => search_after = cursors[Len(cursors)]

\* a session whose second and third polls found nothing: its cursor is still
\* the one of the first page
C27_Witness ==
    /\ Len(pages) >= 3
    /\ pages[1] # <<>>
    /\ pages[2] = <<>>
    /\ pages[3] = <<>>
    /\ search_after = cursors[1]
    /\ search_after # <<>>

\* ----------------------------------------------------- rollup: the claims
IsChild(d) == DocTypeName(d) = "log_entry"

\* the documents rollup has written
IsParent(d) == "entries" \in DOMAIN d

\* child document d is kept, compacted, in the entries of parent p
Folded(d, p) ==
    \E i \in 1..Len(p.entries) : p.entries[i] = _compact_child_doc(SourceOf(d))

\* the root of a child's operation tree, read off the child itself (the
\* scopes nest at most one deep)
RootOfChild(d) ==
    IF d.parent_operation_id # None THEN d.parent_operation_id ELSE d.operation_id

\* the root a completed pass h was about, and the children of that tree that
\* were in the store when it began
PassRoot(h) ==
    LET linked == {d \in h.before : IsChild(d) /\ d.operation_id = h.target
                                    /\ d.parent_operation_id # None}
    IN  IF linked = {} THEN h.target
        ELSE (CHOOSE d \in linked : TRUE).parent_operation_id

PassGroup(h) == {d \in h.before : IsChild(d) /\ RootOfChild(d) = PassRoot(h)}

\* the parent document of the pass's root after the pass
PassParents(h) == {p \in h.after : IsParent(p) /\ p.id = PassRoot(h)}

CountOf(p, l) ==
    IF l \in DOMAIN p.counts_by_level THEN p.counts_by_level[l] ELSE 0

MinTime(S) == CHOOSE t \in {d.timestamp : d \in S} : \A d \in S : t <= d.timestamp
MaxTime(S) == CHOOSE t \in {d.timestamp : d \in S} : \A d \in S : t >= d.timestamp

\* C4 (as claimed): a child document written while a pass runs is never
\* removed from the store without being folded into a parent document.
C4_NoChildLostToRollup ==
    [][\A d \in store :
          (IsChild(d) /\ d.id \in rDuring /\ d \notin store')
          => \E p \in store' : IsParent(p) /\ Folded(d, p)]_vars

\* C29: on a store that does not change during the pass,
\* rollup_operations(since) removes a child document only when it has folded
\* it into a parent document the pass wrote, children older than `since`
\* included
C29_DeletedOnlyOnceFolded ==
    \A i \in 1..Len(passes) :
        LET h == passes[i]
        IN  (h.mode = "batch" /\ h.during = {}) =>
                \A d \in h.before :
                    (IsChild(d) /\ d \notin h.after) =>
                        \E p \in h.after : IsParent(p) /\ Folded(d, p)

\* C5: a pass over a tree with children leaves one parent document whose
\* counts_by_level is the tally of the children per level, whose error_count
\* is the number of error and critical children, whose start_time and
\* end_time are the least and greatest child timestamp, whose last_message is
\* the message of a child with the greatest timestamp, and no child of the
\* tree is left in the store.
SummaryRight(h, p) ==
    LET G == PassGroup(h)
    IN  /\ \A l \in {"debug", "info", "warning", "error", "critical"} :
              CountOf(p, l) = Cardinality({d \in G : d.level = l})
        /\ p.error_count = Cardinality({d \in G : d.level \in {"error", "critical"}})
        /\ p.start_time = MinTime(G)
        /\ p.end_time = MaxTime(G)
        /\ p.last_message \in {d.message : d \in {e \in G : e.timestamp = MaxTime(G)}}

C6_NestedFoldsIntoRoot ==
    \A i \in 1..Len(passes) :
        LET h == passes[i]
            G == PassGroup(h)
            own == {d \in G : d.operation_id = PassRoot(h)}
            nested == {d \in G : d.operation_id # PassRoot(h)}
        IN  (own # {} /\ nested # {} /\ h.during = {})
            => /\ PassRoot(h) = "outer"
               /\ {p.id : p \in {q \in h.after : IsParent(q)}} = {"outer"}
               /\ \A p \in PassParents(h) :
                     /\ \A d \in G : Folded(d, p)
                     /\ Len(p.entries) = Cardinality(G)
                     /\ p.area \in {d.area : d \in own}
                     /\ p.operation_id = "outer"

\* a pass folded a tree whose first scanned child is the nested scope's
C6_Witness ==
    \E i \in 1..Len(passes) :
        LET h == passes[i]
            G == PassGroup(h)
        IN  /\ \E d \in G : d.operation_id = "outer"
            /\ \E d \in G : /\ d.operation_id = "inner"
                            /\ \A e \in G \ {d} : KeyLess(SortOf(d), SortOf(e))
            /\ \E p \in PassParents(h) : p.area = "api" /\ Len(p.entries) >= 2

C32_ParentRecordsEnclosingOperation ==
    \A i \in 1..Len(passes) :
        LET h == passes[i]
            kids == {d \in h.before : IsChild(d)}
        IN  ( /\ h.during = {}
              /\ kids # {}
              /\ \A d \in kids : /\ d.operation_id = "inner"
                                 /\ d.parent_operation_id = "outer"
              /\ h.returned[1] > 0 )
            => \A p \in h.after :
                  (IsParent(p) /\ \E d \in kids : Folded(d, p))
                  => /\ p.operation_id = "inner"
                     /\ Get(p, "parent_operation_id") = "outer"

\* what a rollup_operation pass may touch: it removes or replaces only
\* children of the tree of its target's root and the parent document of
\* that root, and adds only that parent document
SingleFrame(h) ==
    /\ \A d \in h.before \ h.after :
          \/ IsChild(d) /\ RootOfChild(d) = PassRoot(h)
          \/ IsParent(d) /\ d.id = PassRoot(h)
    /\ \A d \in h.after \ h.before :
          IsParent(d) /\ d.id = PassRoot(h) /\ d.operation_id = PassRoot(h)
    /\ _normalize_operation_id(h.target) = None
          => h.after = h.before /\ h.returned = <<0, 0>>

LastPass == passes'[Len(passes')]
PassEnds == Len(passes') = Len(passes) + 1

\* C35: a step of a pass removes a child only when the parent document of
\* its root is in the store already and holds it; when the parent write
\* raises, every child of that group and of the groups still to come that
\* was there when the pass began is still there; when the delete raises,
\* the parent document of the group holds every child scanned for it
C35_ParentWrittenBeforeChildrenDeleted ==
    [][ /\ \A d \in store \ store' :
              IsChild(d) => \E p \in store : /\ IsParent(p)
                                             /\ p.id = RootOfChild(d)
                                             /\ Folded(d, p)
        /\ (PassEnds /\ Get(LastPass, "raised") = "index") =>
              \A d \in LastPass.before :
                 (IsChild(d) /\ \E i \in 1..Len(LastPass.todo) :
                                    LastPass.todo[i] = RootOfChild(d))
                 => d \in store'
        /\ (PassEnds /\ Get(LastPass, "raised") = "delete") =>
              \E p \in store' :
                 /\ IsParent(p)
                 /\ p.id = LastPass.todo[1]
                 /\ LastPass.scanned # <<>>
                 /\ \A i \in 1..Len(LastPass.scanned) :
                       Folded(LastPass.scanned[i], p) ]_vars

\* the parent write of the second group of a batch pass raised after the
\* first group was rolled up, and in another pass the delete raised having
\* removed one of two children
C35_Witness ==
    /\ \E i \in 1..Len(passes) :
          /\ Get(passes[i], "raised") = "index"
          /\ passes[i].returned = <<1, 1>>
          /\ passes[i].todo = <<"outer">>
    /\ \E i \in 1..Len(passes) :
          /\ Get(passes[i], "raised") = "delete"
          /\ Len(passes[i].scanned) = 2
          /\ Cardinality({d \in passes[i].after : IsChild(d)}) = 1

\* C36: whatever emits and passes follow, a child that a completed pass
\* folded into the parent document of its root is in the entries of that
\* root's parent document
C36_ParentKeepsEarlierEntries ==
    rPc = "idle" =>
        \A i \in 1..Len(passes) :
            \A d \in passes[i].before :
                (IsChild(d) /\ \E q \in passes[i].after :
                                  IsParent(q) /\ Folded(d, q))
                => \E p \in store : /\ IsParent(p)
                                    /\ p.id = RootOfChild(d)
                                    /\ Folded(d, p)

\* the scan has every document of S exactly once, by ascending
\* (timestamp, id); a scanned document carries its id as its message
ScannedAll(docs, S) ==
    /\ Len(docs) = Cardinality(S)
    /\ \A d \in S : \E i \in 1..Len(docs) : docs[i] = SourceOf(d)
    /\ \A i, j \in 1..Len(docs) :
          i < j => KeyLess(<<docs[i].timestamp, docs[i].message[1]>>,
                           <<docs[j].timestamp, docs[j].message[1]>>)

\* C39: on a store that does not change during it, a paged scan of child
\* documents comes to its end, and at its end it has collected every child
\* document its query matches exactly once, in ascending (timestamp, id)
\* order
C39_ScanTerminatesCompleteOrdered ==
    /\ [][ /\ (rPc = "scan" /\ rPc' # "scan") =>
                ScannedAll(rDocs, {d \in store : /\ IsChild(d)
                                                 /\ rSince # NoTime
                                                      => d.timestamp >= rSince})
           /\ (rPc = "collect" /\ rPc' # "collect") =>
                ScannedAll(rDocs, {d \in store : /\ IsChild(d)
                                                 /\ d.operation_id = rTarget})
        ]_vars
    /\ (rPc \in {"scan", "collect"}) ~> (rPc \notin {"scan", "collect"})

\* a batch pass has scanned more children than a page holds, all sharing
\* one timestamp
C39_Witness ==
    \E i \in 1..Len(passes) :
        LET h == passes[i]
        IN  /\ h.mode = "batch"
            /\ h.returned[1] > PageSize
            /\ h.returned[1] = Cardinality(h.before)
            /\ Cardinality({d.timestamp : d \in h.before}) = 1

\* a child document whose operation_id is absent or blank
Ungrouped(d) == IsChild(d) /\ DocOp(SourceOf(d)) = None

\* the total of a parent document's counts_by_level
RECURSIVE Tally(_)
Tally(counts) ==
    IF DOMAIN counts = {} THEN 0
    ELSE LET l == CHOOSE x \in DOMAIN counts : TRUE
         IN  counts[l] + Tally([x \in DOMAIN counts \ {l} |-> counts[x]])

\* C33: a child document whose operation_id is absent or blank stays in the
\* store through every step of every pass, and no parent document holds it
\* in its entries or counts it: every entry of a parent has an operation id,
\* and the parent counts as many documents as it has entries
C33_BlankChildrenLeftAlone ==
    [][\A d \in store :
          Ungrouped(d) =>
              /\ d \in store'
              /\ \A p \in store' :
                    IsParent(p) =>
                        /\ ~Folded(d, p)
                        /\ \A i \in 1..Len(p.entries) :
                              p.entries[i].operation_id # None
                        /\ Tally(p.counts_by_level) = Len(p.entries)]_vars

\* a batch pass has folded a child of "outer" out of a store that also held
\* a child without a usable operation_id; a child with a blank and a child
\* with no operation_id are in the store now
C33_Witness ==
    /\ \E d \in store : IsChild(d) /\ d.operation_id = " "
    /\ \E d \in store : IsChild(d) /\ d.operation_id = None
    /\ \E i \in 1..Len(passes) :
          /\ passes[i].mode = "batch"
          /\ passes[i].returned = <<1, 1>>
          /\ \E d \in passes[i].before : Ungrouped(d)
    /\ \E p \in store : IsParent(p) /\ p.id = "outer"

\* what a search for the operation's entries shows
EntryStream(s, operation_id) ==
    normalize_log_entries(
        search_logs(s, None, operation_id, NoTime, DefaultSearchLimit), NoLimit)

\* C8 (as claimed): a search for an operation's entries returns the same
\* entries after the operation was rolled up as before.
C8_RollupInvisibleToSearch ==
    \A i \in 1..Len(passes) :
        (passes[i].returned[1] > 0 /\ passes[i].during = {})
        => \A op \in {"inner", "outer"} :
              EntryStream(passes[i].after, op) = EntryStream(passes[i].before, op)

\* C9 (as claimed): normalising a parent document that holds N entries yields
\* N entries, each with the timestamp, level, message and area of its child.
C9_ParentExpandsToEntries ==
    \A p \in store :
        IsParent(p)
        => LET es == normalize_log_entries(<<p>>, NoLimit)
           IN  /\ Len(es) = Len(p.entries)
               /\ \A i \in 1..Len(es) :
                     /\ es[i].timestamp = p.entries[i].timestamp
                     /\ es[i].level = p.entries[i].level
                     /\ es[i].message = p.entries[i].message
                     /\ es[i].area = p.entries[i].area

\* ---------------------------------------------------- breaker: the claims
\* a failed write has been recorded and its cool-down deadline is ahead
CoolingDown == _circuit_open_until > 0 /\ now < _circuit_open_until

\* C10 (as claimed): once a write has failed, an emit() that starts before
\* the cool-down deadline returns without calling the store's index, on
\* whichever thread and handler it runs; an emit() that starts once the
\* deadline has passed goes on to the index call.
C10_CoolDownSkipsWrites ==
    [][/\ \A t \in Threads :
            (ePc[t] = "idle" /\ emits' = emits + 1 /\ ePc'[t] # "idle")
            => ~CoolingDown
       /\ (emits' = emits + 1 /\ _circuit_open_until > 0 /\ ~CoolingDown)
            => \E t \in Threads : ePc[t] = "idle" /\ ePc'[t] = "index"]_vars

\* C38: an emit whose write had succeeded before another emit's failure
\* opened the breaker never sets the breaker back to closed while the
\* cool-down of that failure runs
C38_StaleSuccessNeverCloses ==
    [][\A t \in Threads :
          (ePc[t] = "close" /\ ePc'[t] = "idle" /\ _circuit_open /\ ~_circuit_open'
              /\ CoolingDown)
          => t \notin stale]_vars

\* the notices printed so far with the given text
NoticesOf(text) == {i \in 1..Len(notices) : notices[i][1] = text}

\* C11: an emit() whose index call raised sets the breaker OPEN and then
\* sets the deadline to its own clock reading plus 60 seconds, whatever the
\* breaker and the deadline were before.
C11_FailureOpensAndArms ==
    [][\A t \in Threads :
          /\ (ePc[t] = "except" /\ ePc'[t] # "except") => _circuit_open'
          /\ (ePc[t] = "deadline" /\ ePc'[t] # "deadline")
             => /\ _circuit_open_until' = eTime[t] + 60
                /\ ePc'[t] = "throttle"]_vars

\* a retry at the expired deadline of a breaker that was never closed has
\* failed, and the breaker is armed for a full cool-down from the retry
C11_Witness ==
    \E t \in Threads :
        /\ ePc[t] = "throttle"
        /\ eTime[t] = StartTime + 60
        /\ <<"Failed to index log", StartTime>> \in
               {notices[i] : i \in 1..Len(notices)}
        /\ NoticesOf("Connection restored") = {}
        /\ _circuit_open
        /\ _circuit_open_until = StartTime + 120

\* C12 (as claimed): an emit() that begins with the breaker OPEN and the
\* deadline passed goes on to the index call; when its write has succeeded
\* it sets the breaker CLOSED; and "Connection restored" is printed only by
\* a step that takes the breaker from OPEN to CLOSED, so once per transition
\* and never on a later successful write.
C12_RetryClosesAndNotifiesOnce ==
    [][/\ (emits' = emits + 1 /\ _circuit_open /\ now >= _circuit_open_until)
          => \E t \in Threads : ePc[t] = "idle" /\ ePc'[t] = "index"
       /\ \A t \in Threads :
             /\ (ePc[t] = "success" /\ ePc'[t] # "success" /\ _circuit_open)
                => ePc'[t] = "close"
             /\ (ePc[t] = "close" /\ ePc'[t] # "close") => ~_circuit_open'
       /\ NoticesOf("Connection restored")' # NoticesOf("Connection restored")
          => (_circuit_open /\ ~_circuit_open')]_vars

\* the positions of emit() inside its except branch
Handling == {"except", "deadline", "throttle", "print"}

\* C13: emit() never raises to its caller when client.index raises: the
\* exception takes it into its except branch, every step of that branch
\* leads on through the branch or back to the caller, and the branch changes
\* nothing but the breaker, the time of the last printed error and what is
\* printed.
C13_FailureAbsorbed ==
    [][\A t \in Threads :
          /\ ePc'[t] # "raised"
          /\ (ePc[t] = "index" /\ ePc'[t] # "index")
             => ePc'[t] \in {"success", "except"}
          /\ (ePc[t] \in Handling /\ ePc'[t] # ePc[t])
             => /\ ePc'[t] \in Handling \cup {"idle"}
                /\ UNCHANGED <<store, issued, now, eTime, emits, calls>>
                /\ UNCHANGED tailVars
                /\ UNCHANGED rollupVars]_vars

\* two index calls raised and were absorbed: every emit() has returned,
\* nothing was written and the breaker is open
C13_Witness ==
    /\ calls >= 2
    /\ \A t \in Threads : ePc[t] = "idle"
    /\ store = {}
    /\ _circuit_open
    /\ NoticesOf("Failed to index log") # {}

\* the clock readings of the emits whose failure was printed
FailurePrints == {notices[i][2] : i \in NoticesOf("Failed to index log")}

\* C15 (as claimed): no two "Failed to index" messages are printed for
\* failures 10 seconds or less apart (each failure prints at most once, and
\* two printed failures are more than 10 seconds apart), while every failing
\* write goes on to open the breaker and set a fresh deadline whether or not
\* it will print.
C15_ErrorsThrottled ==
    [][/\ Cardinality(NoticesOf("Failed to index log")') = Cardinality(FailurePrints')
       /\ \A a, b \in FailurePrints' : a < b => b - a > 10
       /\ \A t \in Threads :
             (ePc[t] = "deadline" /\ ePc'[t] # "deadline")
             => /\ _circuit_open_until' = eTime[t] + 60
                /\ ePc'[t] \in {"throttle"}]_vars

\* C14: once the store has stopped failing and emit() keeps being called
\* after the cool-down, in every interleaving the one breaker all threads
\* read becomes CLOSED and stays CLOSED.
C14_BreakerConverges == <>[](~_circuit_open)

\* the breaker was opened by a failure and closed again by a write that
\* succeeded after the cool-down
C14_Witness ==
    /\ ~_circuit_open
    /\ _circuit_open_until > 0
    /\ now >= _circuit_open_until
    /\ NoticesOf("Failed to index log") # {}
    /\ \E i \in NoticesOf("Connection restored") :
           notices[i][2] >= _circuit_open_until


\* ---------------------------------------------------- context: the claims
\* the innermost scope of task k
Top(k) == frames[k][Len(frames[k])]

\* this step enters a scope in task k / leaves the innermost scope of task k
EnterStep(k) == Len(frames'[k]) = Len(frames[k]) + 1
ExitStep(k) == Len(frames'[k]) = Len(frames[k]) - 1

\* C16: entering B inside A makes B's id the current operation_id and A's
\* operation_id the parent_operation_id; leaving a scope, nested or outermost,
\* restores exactly the (operation_id, parent_operation_id, area) that was
\* current before the scope was entered
C16_NestingSetsAndRestores ==
    [][\A k \in Tasks :
        /\ (EnterStep(k) /\ frames[k] # <<>>) =>
              /\ CvGet(_operation_id_var, k)' = Top(k)'.operation_id
              /\ CvGet(_parent_operation_id_var, k)' = Top(k).operation_id
        /\ ExitStep(k) =>
              << CvGet(_operation_id_var, k)',
                 CvGet(_parent_operation_id_var, k)',
                 CvGet(_area_var, k)' >> = Top(k).before]_vars

\* B was left inside A, A's id is current again and A has a different area
\* than the one before A; then A was left too
C16_Witness ==
    \E k \in Tasks :
        /\ lastStep[k] = "exit"
        /\ Len(frames[k]) = 1
        /\ Ctx(k) = << Top(k).operation_id, None, "api" >>
        /\ Top(k).operation_id = "outer"
        /\ Top(k).before = << None, None, None >>


\* the innermost scope of task k is the outermost one and has rollup enabled
OutermostEnabled(k) == Len(frames[k]) = 1 /\ Top(k).rollup_enabled

\* the operation ids of the rollups the latest exit of task k triggered
RollupIds(k) == [i \in 1..Len(rollups[k]) |-> rollups[k][i].operation_id]

\* C17 as stated: every outermost scope with rollup enabled triggers exactly
\* one rollup, at its exit and for its operation id, and the exit of a nested
\* scope triggers none, whatever its rollup flag
C17_OneRollupPerOutermostScope ==
    [][\A k \in Tasks :
        ExitStep(k) =>
            RollupIds(k)' = IF OutermostEnabled(k)
                            THEN << Top(k).operation_id >>
                            ELSE << >>]_vars

\* C17 amended: every outermost scope with rollup enabled and an operation id
\* that is not the empty string triggers exactly one rollup, at its exit and
\* for its operation id; the exit of a nested scope, and of a scope whose id
\* is the empty string, triggers none
C17_OneRollupPerNamedOutermostScope ==
    [][\A k \in Tasks :
        ExitStep(k) =>
            RollupIds(k)' = IF OutermostEnabled(k) /\ Top(k).operation_id # ""
                            THEN << Top(k).operation_id >>
                            ELSE << >>]_vars

\* an outermost scope "outer" was left and rolled up once
C17_Witness ==
    \E k \in Tasks :
        /\ lastStep[k] = "exit"
        /\ frames[k] = <<>>
        /\ RollupIds(k) = << "outer" >>


\* the rollup the latest exit of task k triggered raised
RollupRaised(k) == \E i \in 1..Len(rollups[k]) : rollups[k][i].raised

\* C18: when the rollup triggered by the exit of an outermost scope raises,
\* the exception does not leave the scope, and the context is restored to the
\* triple it had before the scope was entered
C18_RollupFailureAbsorbed ==
    [][\A k \in Tasks :
        (ExitStep(k) /\ RollupRaised(k)') =>
            /\ ~escaped'[k]
            /\ << CvGet(_operation_id_var, k)',
                  CvGet(_parent_operation_id_var, k)',
                  CvGet(_area_var, k)' >> = Top(k).before]_vars

\* the rollup of an outermost scope raised; the scope was left, the task
\* goes on and its context is empty again
C18_Witness ==
    \E k \in Tasks :
        /\ lastStep[k] = "exit"
        /\ RollupRaised(k)
        /\ ~escaped[k]
        /\ frames[k] = <<>>
        /\ Ctx(k) = << None, None, None >>


\* this step is a step of task j: it enters or leaves a scope of j, or it is
\* the first set_area of j after something else
StepOf(j) == frames'[j] # frames[j] \/ lastStep'[j] # lastStep[j]

\* the context a task has by its own scopes: the innermost scope's id, and
\* the id of the scope around it
OwnOperationId(k) == IF frames[k] = <<>> THEN None ELSE Top(k).operation_id
OwnParentId(k) ==
    IF Len(frames[k]) < 2 THEN None
    ELSE frames[k][Len(frames[k]) - 1].operation_id

\* C19: tasks never observe each other's context: a step of one task (enter,
\* exit or set_area) leaves the (operation_id, parent_operation_id, area) of
\* every other task as it was, and a task's operation_id and
\* parent_operation_id are those of its own innermost scopes
C19_TasksIsolated ==
    [][\A k \in Tasks :
        /\ (~StepOf(k) /\ \E j \in Tasks \ {k} : StepOf(j)) =>
              << CvGet(_operation_id_var, k)',
                 CvGet(_parent_operation_id_var, k)',
                 CvGet(_area_var, k)' >> = Ctx(k)
        /\ CvGet(_operation_id_var, k)' = OwnOperationId(k)'
        /\ CvGet(_parent_operation_id_var, k)' = OwnParentId(k)']_vars

\* both tasks are inside scopes of their own, with different ids and
\* different areas, one of them set by set_area
C19_Witness ==
    \E k \in Tasks, j \in Tasks :
        /\ Ctx(k) = << "outer", None, "api" >>
        /\ Ctx(j)[1] = "uuid1"
        /\ Ctx(j)[3] = "jobs"
        /\ lastStep[j] = "set_area"
        /\ lastStep[k] = "enter"


\* C20: leaving a scope restores exactly the (operation_id,
\* parent_operation_id, area) that was current just before the scope was
\* entered, whatever happened inside it, set_area calls inside a scope that
\* was entered without an area included
C20_ExitRestoresExactTriple ==
    [][\A k \in Tasks :
        ExitStep(k) => Ctx(k)' = Top(k).before]_vars


\* ----------------------------------------------------- ingest: the claims
Calls == {indexed[i] : i \in 1..Len(indexed)}

\* C21: a nested scope entered without an area inherits no area from the
\* scope around it: a record logged in it, with no area of its own attached,
\* is written without an area, while its parent_operation_id is the id of the
\* scope around it
C21_AreaNotInherited ==
    \A c \in Calls :
        (c.depth >= 2 /\ ~c.entered_with_area /\ c.record.area = None) =>
            /\ c.call.body.area = None
            /\ c.call.body.parent_operation_id = c.context[2]


\* the ids of the scopes that are open in some task
OpenIds == UNION {{frames[k][i].operation_id : i \in 1..Len(frames[k])} : k \in Tasks}

\* neither the context nor the record supplies an operation id
Unnamed(c) == ~Truthy(c.context[1]) /\ ~Truthy(c.record.operation_id)

\* C22: every document DiagnosticsHandler writes has a non-empty
\* operation_id; when neither the context nor the record supplies one, the id
\* is a fresh generated one, the document is a root (doc_type "operation")
\* and the write is routed by the generated id
C22_DiagnosticsAlwaysNamed ==
    \A c \in Calls :
        c.handler = "DiagnosticsHandler" =>
            /\ Truthy(c.call.body.operation_id)
            /\ Unnamed(c) =>
                  /\ c.call.body.operation_id \notin
                         OpenIds \cup ScopeIds \cup ExtraOperations
                  /\ c.call.body.doc_type = OperationType
                  /\ c.call.routing = c.call.body.operation_id

\* DiagnosticsHandler wrote a record logged inside operation("") with no id
\* attached: the document is a root under a generated id
C22_Witness ==
    \E c \in Calls :
        /\ c.handler = "DiagnosticsHandler"
        /\ c.context[1] = ""
        /\ c.record.operation_id = None
        /\ c.call.body.doc_type = OperationType
        /\ c.call.routing = "uuid1"


\* C23: a handler writes the document as a child (doc_type "log_entry" with
\* the document's operation_id as parent) exactly when an operation id is
\* present in the context or attached to the record, and routes every child
\* by the document's operation_id
C23_ChildIffOperationKnown ==
    \A c \in Calls :
        /\ (c.call.body.doc_type.name = "log_entry") <=>
               (Truthy(c.context[1]) \/ Truthy(c.record.operation_id))
        /\ c.call.body.doc_type.name = "log_entry" =>
               /\ c.call.body.doc_type.parent = c.call.body.operation_id
               /\ c.call.routing = c.call.body.operation_id


\* C24: an area or operation_id attached to the record takes precedence over
\* the context's in the document either handler writes, and the child tag and
\* the routing key use the overriding operation_id
C24_RecordOverridesContext ==
    \A c \in Calls :
        /\ Truthy(c.record.area) => c.call.body.area = c.record.area
        /\ Truthy(c.record.operation_id) =>
               /\ c.call.body.operation_id = c.record.operation_id
               /\ c.call.body.doc_type = ChildType(c.record.operation_id)
               /\ c.call.routing = c.record.operation_id

\* this step is an emit() of OpenSearchHandler with the breaker closed and no
\* operation in the context of the task that logs
PlainEmit ==
    /\ ~_circuit_open
    /\ \E k \in Tasks :
         /\ CvGet(_operation_id_var, k) = None
         /\ Emit(k)
         /\ indexed' # indexed =>
                indexed'[Len(indexed')].handler = "OpenSearchHandler"

\* C25: OpenSearchHandler.emit with a client, a closed breaker and no
\* operation in the context calls index exactly once, on the configured
\* index, with a body whose doc_type is "log_entry"
C25_PlainEmitIndexesLogEntry ==
    [][PlainEmit =>
          /\ Len(indexed') = Len(indexed) + 1
          /\ indexed'[Len(indexed')].call.index = IndexName
          /\ indexed'[Len(indexed')].call.body.doc_type.name = "log_entry"]_vars


\* C37: every document a handler's emit() handed to client.index is matched
\* by the query search_logs and tail_logs build when no filter is given,
\* whether the record was emitted inside an operation scope or outside any
C37_EmittedDocumentsAreSearchable ==
    \A c \in Calls :
        Matches(_build_log_query(None, None, NoTime), c.call.body)

\* ----------------------------------------------------- levels: the claims
\* the ids of the documents of S whose stored level is one of `levels`
WithLevel(S, levels) == {d.id : d \in {x \in S : x.level \in levels}}

\* C28: a search with level "ERROR" returns the documents stored with level
\* "error" and with level "ERROR" and none stored with level "info"; in
\* general the documents returned are those whose level is the normalized
\* level, its upper-case form or the raw input when that is a non-empty
\* string, and every document when the input normalizes to no level
C28_LevelFilterFoldsCase ==
    \A q \in {lastSearch[i] : i \in 1..Len(lastSearch)} :
        /\ q.level = "ERROR" =>
              /\ WithLevel(q.over, {"error", "ERROR"}) \subseteq q.hits
              /\ WithLevel(q.over, {"info"}) \cap q.hits = {}
        /\ q.hits =
              IF normalize_level(q.level) = None
              THEN {d.id : d \in q.over}
              ELSE WithLevel(q.over,
                      {normalize_level(q.level), Upper(normalize_level(q.level))}
                      \cup (IF q.level \notin {None, "", " "}
                            THEN {q.level} ELSE {}))

\* a search for "ERROR" over documents with levels "error", "ERROR" and
\* "info" found the first two
C28_Witness ==
    \E q \in {lastSearch[i] : i \in 1..Len(lastSearch)} :
        /\ q.level = "ERROR"
        /\ {d.level : d \in q.over} = {"error", "ERROR", "info"}
        /\ Cardinality(q.hits) = 2


\* ---------------------------------------------- _resolve_root: the claims
\* the ids on a cycle of parent_map
OnCycle(parent_map) ==
    LET RECURSIVE Reach(_, _)
        Reach(from, n) ==
            IF n = 0 \/ from \notin DOMAIN parent_map THEN {}
            ELSE {parent_map[from]} \cup Reach(parent_map[from], n - 1)
    IN  {x \in DOMAIN parent_map : x \in Reach(x, Cardinality(DOMAIN parent_map))}

\* C30: _resolve_root returns for every parent map, cyclic ones included: a
\* walk that meets a cycle stops at the id it reached when it came back to an
\* id already seen, any other walk at the root of the chain; the value is the
\* one of the recursive definition
C30_ResolveRootTerminates ==
    <>[]( /\ wPc = "done"
          /\ wResult = _resolve_root(wStart, wMap)
          /\ Truthy(wStart) =>
                \/ wResult \notin DOMAIN wMap
                \/ wResult \in wSeen /\ wResult \in OnCycle(wMap) )

\* a walk a -> b -> c -> b has returned b
C30_Witness ==
    /\ wPc = "done"
    /\ OnCycle(wMap) = {"b", "c"}
    /\ wStart = "a"
    /\ wSeen = {"a", "b", "c"}
    /\ wResult \in OnCycle(wMap)


\* the ids that following parent links from `from` reaches in at most n steps
RECURSIVE Chain(_, _, _)
Chain(parent_map, from, n) ==
    IF n = 0 \/ from \notin DOMAIN parent_map THEN {from}
    ELSE {from} \cup Chain(parent_map, parent_map[from], n - 1)

ChainOf(parent_map, x) == Chain(parent_map, x, Cardinality(DOMAIN parent_map))

\* the top-most ancestor of x: the id of its chain that has no parent
TopMost(parent_map, x) ==
    CHOOSE y \in ChainOf(parent_map, x) : y \notin DOMAIN parent_map

\* one scanned child per operation id, with the parent the map gives it, and
\* one more child of the first id
ScannedFor(parent_map) ==
    LET ids == <<"a", "b", "c">>
        child(n, id) == ChildBody(1, "info", <<ToString(n)>>, None, id,
                                  Get(parent_map, id))
    IN  [i \in 1..Len(ids) |-> child(i, ids[i])]
        \o <<child(Len(ids) + 1, ids[1])>>

\* C31: in a parent map without cycles every id of one chain resolves to one
\* root, which has no parent and resolves to itself; the children scanned
\* with these links are each in exactly one group, the group keyed by the
\* top-most ancestor of their operation id
C31_ChainResolvesToOneRoot ==
    OnCycle(wMap) = {} =>
        LET docs == ScannedFor(wMap)
            groups == _group_child_docs(docs)
            InGroup(r, i) == \E j \in 1..Len(groups[r].docs) :
                                groups[r].docs[j] = docs[i]
        IN  /\ _build_parent_map(docs) = wMap
            /\ \A x \in WalkIds :
                 LET root == _resolve_root(x, wMap)
                 IN  /\ root = TopMost(wMap, x)
                     /\ root \notin DOMAIN wMap
                     /\ _resolve_root(root, wMap) = root
                     /\ \A y \in ChainOf(wMap, x) : _resolve_root(y, wMap) = root
            /\ (wPc = "done" /\ Truthy(wStart)) => wResult = TopMost(wMap, wStart)
            /\ \A i \in 1..Len(docs) :
                 {r \in DOMAIN groups : InGroup(r, i)}
                    = {TopMost(wMap, docs[i].operation_id)}

\* the walk of the chain a -> b -> c from a has returned c
C31_Witness ==
    /\ wPc = "done"
    /\ OnCycle(wMap) = {}
    /\ DOMAIN wMap = {"a", "b"}
    /\ wMap["a"] = "b"
    /\ wMap["b"] = "c"
    /\ wStart = "a"
    /\ wResult = "c"


\* ------------------------------------------------------- cli: the claims
\* the number of connection failures the polls so far end with
RECURSIVE TrailingFailures(_)
TrailingFailures(log) ==
    IF log = <<>> \/ ~IsConnectionError(log[Len(log)].kind) THEN 0
    ELSE 1 + TrailingFailures(SubSeq(log, 1, Len(log) - 1))

\* the number of connection failures since the last successful poll
RECURSIVE FailuresSinceSuccess(_)
FailuresSinceSuccess(log) ==
    IF log = <<>> \/ log[Len(log)].kind = "ok" THEN 0
    ELSE (IF IsConnectionError(log[Len(log)].kind) THEN 1 ELSE 0)
            + FailuresSinceSuccess(SubSeq(log, 1, Len(log) - 1))

LastOutcome == outcomes[Len(outcomes)].kind
GaveUp == cliPc = "exited" /\ exitStatus = 1

\* what the loops do with the count and the cursor: the count is the number
\* of connection failures since the last successful poll, a poll that raised
\* left the cursor as it was, and without --follow the first connection
\* failure ends the command with status 1
LoopBookkeeping ==
    /\ consecutive_errors = FailuresSinceSuccess(outcomes)
    /\ (outcomes # <<>> /\ LastOutcome = "ok") => consecutive_errors = 0
    /\ \A i \in 1..Len(outcomes) :
          outcomes[i].kind # "ok" => outcomes[i].after = outcomes[i].before
    /\ (~follow /\ outcomes # <<>> /\ IsConnectionError(outcomes[1].kind))
          => GaveUp /\ Len(outcomes) = 1

====
